---- MODULE Spec2Model ----
(***************************************************************************)
(* The per-object feature generator of napari-features                     *)
(* (src/napari_features/generator.py): the memoising `cache` decorator,    *)
(* the Generator iterator over the labelled objects of an image, its       *)
(* derived quantities and its feature properties.                          *)
(*                                                                         *)
(* Arrays are records [dtype, shape, at]: `at` maps each 0-based index     *)
(* tuple of `shape` to the element.  A float element k stands for the      *)
(* value k / MaxIntensity, so the float images range over [0, 1]; a bool   *)
(* element is 0 or 1.  A quotient is kept as [num, den]; den = 0 is the    *)
(* NaN or infinity numpy produces for a division by zero.                  *)
(***************************************************************************)
EXTENDS Integers, Sequences, FiniteSets, TLC

\* Largest label value of a label image (the number of objects is at most this).
MaxLabel == 2

\* Number of intensity steps: a pixel holds k / MaxIntensity for k in 0..MaxIntensity.
MaxIntensity == 1

\* Number of derived quantities a caller reads directly from one engine.
MaxRequests == 1

\* Shape of the label image and of the intensity image (2-D, equal shapes).
Shape == <<2, 2>>

----------------------------------------------------------------------------
\* numpy arrays

Indices(shape) ==
  CASE Len(shape) = 0 -> {<<>>}
    [] Len(shape) = 1 -> {<<i>> : i \in 0..(shape[1] - 1)}
    [] Len(shape) = 2 -> {<<i, j>> : i \in 0..(shape[1] - 1), j \in 0..(shape[2] - 1)}

\* The index tuples of `shape` in C (row-major) order.
RowMajor(shape) ==
  CASE Len(shape) = 0 -> << <<>> >>
    [] Len(shape) = 1 -> [k \in 1..shape[1] |-> <<k - 1>>]
    [] Len(shape) = 2 ->
         [k \in 1..(shape[1] * shape[2]) |-> <<(k - 1) \div shape[2], (k - 1) % shape[2]>>]

Size(shape) == Cardinality(Indices(shape))

\* The elements of an array as a sequence, in C order (ndarray.reshape(-1)).
Flat(a) == [k \in 1..Size(a.shape) |-> a.at[RowMajor(a.shape)[k]]]

RECURSIVE SeqSum(_)
SeqSum(s) == IF s = <<>> THEN 0 ELSE Head(s) + SeqSum(Tail(s))

RECURSIVE SeqMax(_)
SeqMax(s) ==
  IF Len(s) = 1 THEN s[1]
  ELSE LET m == SeqMax(Tail(s)) IN IF Head(s) >= m THEN Head(s) ELSE m

RECURSIVE SeqMin(_)
SeqMin(s) ==
  IF Len(s) = 1 THEN s[1]
  ELSE LET m == SeqMin(Tail(s)) IN IF Head(s) <= m THEN Head(s) ELSE m

numpy_sum(a) == SeqSum(Flat(a))

numpy_max(a) == SeqMax(Flat(a))

numpy_min(a) == SeqMin(Flat(a))

numpy_mean(a) == [num |-> SeqSum(Flat(a)), den |-> Size(a.shape)]

\* a[object] for a tuple `object` of slices, one per axis.
Slice(a, object) ==
  LET shape == [k \in 1..Len(object) |-> object[k].stop - object[k].start]
  IN [dtype |-> a.dtype,
      shape |-> shape,
      at |-> [idx \in Indices(shape) |->
                a.at[[k \in 1..Len(object) |-> idx[k] + object[k].start]]]]

\* numpy.squeeze: the axes of length one are removed.
numpy_squeeze(a) ==
  LET kept == SelectSeq([k \in 1..Len(a.shape) |-> k], LAMBDA k : a.shape[k] # 1)
      shape == [k \in 1..Len(kept) |-> a.shape[kept[k]]]
      full(idx) == [k \in 1..Len(a.shape) |->
                      IF a.shape[k] = 1 THEN 0
                      ELSE idx[Cardinality({j \in 1..k : a.shape[j] # 1})]]
  IN [dtype |-> a.dtype,
      shape |-> shape,
      at |-> [idx \in Indices(shape) |-> a.at[full(idx)]]]

\* a > 0, elementwise.
Positive(a) ==
  [dtype |-> "bool", shape |-> a.shape,
   at |-> [idx \in Indices(a.shape) |-> IF a.at[idx] > 0 THEN 1 ELSE 0]]

\* numpy broadcasting: shapes are aligned at their last axis, an axis of
\* length one stretches, any other mismatch is a ValueError.
PadShape(shape, n) ==
  [k \in 1..n |-> IF k <= n - Len(shape) THEN 1 ELSE shape[k - (n - Len(shape))]]

Broadcastable(s, t) ==
  LET n == IF Len(s) >= Len(t) THEN Len(s) ELSE Len(t)
  IN \A k \in 1..n :
       \/ PadShape(s, n)[k] = PadShape(t, n)[k]
       \/ PadShape(s, n)[k] = 1
       \/ PadShape(t, n)[k] = 1

BroadcastShape(s, t) ==
  LET n == IF Len(s) >= Len(t) THEN Len(s) ELSE Len(t)
  IN [k \in 1..n |-> IF PadShape(s, n)[k] = 1 THEN PadShape(t, n)[k] ELSE PadShape(s, n)[k]]

\* The index into an operand of shape `shape` for index `idx` of the broadcast result.
Operand(idx, shape) ==
  [k \in 1..Len(shape) |->
     IF shape[k] = 1 THEN 0 ELSE idx[k + Len(idx) - Len(shape)]]

\* a * b, elementwise with broadcasting (a of a float dtype).
Multiply(a, b) ==
  LET shape == BroadcastShape(a.shape, b.shape)
  IN [dtype |-> a.dtype,
      shape |-> shape,
      at |-> [idx \in Indices(shape) |->
                a.at[Operand(idx, a.shape)] * b.at[Operand(idx, b.shape)]]]

----------------------------------------------------------------------------
\* The collaborators: skimage, scipy.ndimage

\* skimage.img_as_float32 of a float image: the dtype becomes float32 and the
\* values (here multiples of 1 / MaxIntensity) are kept.
img_as_float32(image) == [image EXCEPT !.dtype = "float32"]

\* numpy.rint(255 * k / MaxIntensity): round to nearest, ties to even.
Rint255(k) ==
  LET q == (255 * k) \div MaxIntensity
      r == (255 * k) % MaxIntensity
  IN IF 2 * r < MaxIntensity THEN q
     ELSE IF 2 * r > MaxIntensity THEN q + 1
     ELSE IF q % 2 = 0 THEN q ELSE q + 1

\* skimage.img_as_ubyte refuses a float array with a value outside [-1, 1]
\* (ValueError).  The values of the model are never negative.
OutOfRange(a) == \E idx \in Indices(a.shape) : a.at[idx] > MaxIntensity

\* skimage.img_as_ubyte of a float array with values in [0, 1].
img_as_ubyte(a) ==
  [dtype |-> "uint8", shape |-> a.shape,
   at |-> [idx \in Indices(a.shape) |-> Rint255(a.at[idx])]]

\* scipy.ndimage.find_objects: entry i (1-based) is the tuple of slices
\* bounding the pixels of label i, or None when no pixel holds i; the list
\* is as long as the largest label.
find_objects(label) ==
  LET values == {label.at[idx] : idx \in Indices(label.shape)}
      largest == CHOOSE v \in values : \A w \in values : w <= v
      pixels(i) == {idx \in Indices(label.shape) : label.at[idx] = i}
      lo(i, k) == CHOOSE v \in {p[k] : p \in pixels(i)} : \A p \in pixels(i) : v <= p[k]
      hi(i, k) == CHOOSE v \in {p[k] : p \in pixels(i)} : \A p \in pixels(i) : v >= p[k]
  IN [i \in 1..largest |->
        IF pixels(i) = {} THEN "None"
        ELSE [k \in 1..Len(label.shape) |-> [start |-> lo(i, k), stop |-> hi(i, k) + 1]]]

Power(b, e) == IF e = 0 THEN 1 ELSE IF e = 1 THEN b ELSE IF e = 2 THEN b * b ELSE b * b * b

\* skimage.measure.moments(image, 3) of a 2-D image: M[p, q] is the sum of
\* r^p * c^q * image[r, c] over the pixels, p and q in 0..3.
moments(a) ==
  [pq \in (0..3) \X (0..3) |->
     SeqSum([k \in 1..Size(a.shape) |->
               LET idx == RowMajor(a.shape)[k]
               IN Power(idx[1], pq[1]) * Power(idx[2], pq[2]) * a.at[idx]])]

\* skimage.segmentation.find_boundaries(mask, mode="outer"): the background
\* pixels that touch a foreground pixel along an axis.
find_boundaries(mask) ==
  LET touches(p, q) ==
        \E k \in 1..Len(mask.shape) :
          /\ \A j \in 1..Len(mask.shape) : j # k => p[j] = q[j]
          /\ p[k] - q[k] \in {-1, 1}
  IN [dtype |-> "bool", shape |-> mask.shape,
      at |-> [p \in Indices(mask.shape) |->
                IF /\ mask.at[p] = 0
                   /\ \E q \in Indices(mask.shape) : mask.at[q] = 1 /\ touches(p, q)
                THEN 1 ELSE 0]]

----------------------------------------------------------------------------
\* The properties of class Generator, in the order the class body declares
\* them: attr is the attribute name, name its code points, stub whether the
\* body is `return 0.0`, moment the index of a spatial-moment feature.

Properties ==
  <<
    [attr |-> "area", stub |-> FALSE, moment |-> <<>>,
     name |-> <<97,114,101,97>>],
    [attr |-> "central_moments", stub |-> FALSE, moment |-> <<>>,
     name |-> <<99,101,110,116,114,97,108,95,109,111,109,101,110,116,115>>],
    [attr |-> "centroid", stub |-> FALSE, moment |-> <<>>,
     name |-> <<99,101,110,116,114,111,105,100>>],
    [attr |-> "columns", stub |-> FALSE, moment |-> <<>>,
     name |-> <<99,111,108,117,109,110,115>>],
    [attr |-> "convex_hull", stub |-> FALSE, moment |-> <<>>,
     name |-> <<99,111,110,118,101,120,95,104,117,108,108>>],
    [attr |-> "coordinates", stub |-> FALSE, moment |-> <<>>,
     name |-> <<99,111,111,114,100,105,110,97,116,101,115>>],
    [attr |-> "crop", stub |-> FALSE, moment |-> <<>>,
     name |-> <<99,114,111,112>>],
    [attr |-> "edge", stub |-> FALSE, moment |-> <<>>,
     name |-> <<101,100,103,101>>],
    [attr |-> "inertia_tensor", stub |-> FALSE, moment |-> <<>>,
     name |-> <<105,110,101,114,116,105,97,95,116,101,110,115,111,114>>],
    [attr |-> "inertia_tensor_eigenvalues", stub |-> FALSE, moment |-> <<>>,
     name |-> <<105,110,101,114,116,105,97,95,116,101,110,115,111,114,95,101,105,103,101,110,118,97,108,117,101,115>>],
    [attr |-> "local_centroid", stub |-> FALSE, moment |-> <<>>,
     name |-> <<108,111,99,97,108,95,99,101,110,116,114,111,105,100>>],
    [attr |-> "mask", stub |-> FALSE, moment |-> <<>>,
     name |-> <<109,97,115,107>>],
    [attr |-> "masked", stub |-> FALSE, moment |-> <<>>,
     name |-> <<109,97,115,107,101,100>>],
    [attr |-> "spatial_moments", stub |-> FALSE, moment |-> <<>>,
     name |-> <<115,112,97,116,105,97,108,95,109,111,109,101,110,116,115>>],
    [attr |-> "_feature_color_image_integrated_intensity", stub |-> FALSE, moment |-> <<>>,
     name |-> <<95,102,101,97,116,117,114,101,95,99,111,108,111,114,95,105,109,97,103,101,95,105,110,116,101,103,114,97,116,101,100,95,105,110,116,101,110,115,105,116,121>>],
    [attr |-> "_feature_color_image_maximum_intensity", stub |-> FALSE, moment |-> <<>>,
     name |-> <<95,102,101,97,116,117,114,101,95,99,111,108,111,114,95,105,109,97,103,101,95,109,97,120,105,109,117,109,95,105,110,116,101,110,115,105,116,121>>],
    [attr |-> "_feature_color_image_mean_intensity", stub |-> FALSE, moment |-> <<>>,
     name |-> <<95,102,101,97,116,117,114,101,95,99,111,108,111,114,95,105,109,97,103,101,95,109,101,97,110,95,105,110,116,101,110,115,105,116,121>>],
    [attr |-> "_feature_color_image_median_absolute_deviation_intensity", stub |-> FALSE, moment |-> <<>>,
     name |-> <<95,102,101,97,116,117,114,101,95,99,111,108,111,114,95,105,109,97,103,101,95,109,101,100,105,97,110,95,97,98,115,111,108,117,116,101,95,100,101,118,105,97,116,105,111,110,95,105,110,116,101,110,115,105,116,121>>],
    [attr |-> "_feature_color_image_median_intensity", stub |-> FALSE, moment |-> <<>>,
     name |-> <<95,102,101,97,116,117,114,101,95,99,111,108,111,114,95,105,109,97,103,101,95,109,101,100,105,97,110,95,105,110,116,101,110,115,105,116,121>>],
    [attr |-> "_feature_color_image_minimum_intensity", stub |-> FALSE, moment |-> <<>>,
     name |-> <<95,102,101,97,116,117,114,101,95,99,111,108,111,114,95,105,109,97,103,101,95,109,105,110,105,109,117,109,95,105,110,116,101,110,115,105,116,121>>],
    [attr |-> "_feature_color_image_quantile_1_intensity", stub |-> FALSE, moment |-> <<>>,
     name |-> <<95,102,101,97,116,117,114,101,95,99,111,108,111,114,95,105,109,97,103,101,95,113,117,97,110,116,105,108,101,95,49,95,105,110,116,101,110,115,105,116,121>>],
    [attr |-> "_feature_color_image_quantile_3_intensity", stub |-> FALSE, moment |-> <<>>,
     name |-> <<95,102,101,97,116,117,114,101,95,99,111,108,111,114,95,105,109,97,103,101,95,113,117,97,110,116,105,108,101,95,51,95,105,110,116,101,110,115,105,116,121>>],
    [attr |-> "_feature_color_image_standard_deviation_intensity", stub |-> FALSE, moment |-> <<>>,
     name |-> <<95,102,101,97,116,117,114,101,95,99,111,108,111,114,95,105,109,97,103,101,95,115,116,97,110,100,97,114,100,95,100,101,118,105,97,116,105,111,110,95,105,110,116,101,110,115,105,116,121>>],
    [attr |-> "_feature_color_object_edge_integrated_intensity", stub |-> FALSE, moment |-> <<>>,
     name |-> <<95,102,101,97,116,117,114,101,95,99,111,108,111,114,95,111,98,106,101,99,116,95,101,100,103,101,95,105,110,116,101,103,114,97,116,101,100,95,105,110,116,101,110,115,105,116,121>>],
    [attr |-> "_feature_color_object_edge_maximum_intensity", stub |-> FALSE, moment |-> <<>>,
     name |-> <<95,102,101,97,116,117,114,101,95,99,111,108,111,114,95,111,98,106,101,99,116,95,101,100,103,101,95,109,97,120,105,109,117,109,95,105,110,116,101,110,115,105,116,121>>],
    [attr |-> "_feature_color_object_edge_mean_intensity", stub |-> FALSE, moment |-> <<>>,
     name |-> <<95,102,101,97,116,117,114,101,95,99,111,108,111,114,95,111,98,106,101,99,116,95,101,100,103,101,95,109,101,97,110,95,105,110,116,101,110,115,105,116,121>>],
    [attr |-> "_feature_color_object_edge_median_intensity", stub |-> FALSE, moment |-> <<>>,
     name |-> <<95,102,101,97,116,117,114,101,95,99,111,108,111,114,95,111,98,106,101,99,116,95,101,100,103,101,95,109,101,100,105,97,110,95,105,110,116,101,110,115,105,116,121>>],
    [attr |-> "_feature_color_object_edge_minimum_intensity", stub |-> FALSE, moment |-> <<>>,
     name |-> <<95,102,101,97,116,117,114,101,95,99,111,108,111,114,95,111,98,106,101,99,116,95,101,100,103,101,95,109,105,110,105,109,117,109,95,105,110,116,101,110,115,105,116,121>>],
    [attr |-> "_feature_color_object_edge_quantile_1_intensity", stub |-> FALSE, moment |-> <<>>,
     name |-> <<95,102,101,97,116,117,114,101,95,99,111,108,111,114,95,111,98,106,101,99,116,95,101,100,103,101,95,113,117,97,110,116,105,108,101,95,49,95,105,110,116,101,110,115,105,116,121>>],
    [attr |-> "_feature_color_object_edge_quantile_3_intensity", stub |-> FALSE, moment |-> <<>>,
     name |-> <<95,102,101,97,116,117,114,101,95,99,111,108,111,114,95,111,98,106,101,99,116,95,101,100,103,101,95,113,117,97,110,116,105,108,101,95,51,95,105,110,116,101,110,115,105,116,121>>],
    [attr |-> "_feature_color_object_edge_standard_deviation_intensity", stub |-> FALSE, moment |-> <<>>,
     name |-> <<95,102,101,97,116,117,114,101,95,99,111,108,111,114,95,111,98,106,101,99,116,95,101,100,103,101,95,115,116,97,110,100,97,114,100,95,100,101,118,105,97,116,105,111,110,95,105,110,116,101,110,115,105,116,121>>],
    [attr |-> "_feature_color_object_center_mass_intensity_x", stub |-> TRUE, moment |-> <<>>,
     name |-> <<95,102,101,97,116,117,114,101,95,99,111,108,111,114,95,111,98,106,101,99,116,95,99,101,110,116,101,114,95,109,97,115,115,95,105,110,116,101,110,115,105,116,121,95,120>>],
    [attr |-> "_feature_color_object_center_mass_intensity_y", stub |-> TRUE, moment |-> <<>>,
     name |-> <<95,102,101,97,116,117,114,101,95,99,111,108,111,114,95,111,98,106,101,99,116,95,99,101,110,116,101,114,95,109,97,115,115,95,105,110,116,101,110,115,105,116,121,95,121>>],
    [attr |-> "_feature_color_object_integrated_intensity", stub |-> FALSE, moment |-> <<>>,
     name |-> <<95,102,101,97,116,117,114,101,95,99,111,108,111,114,95,111,98,106,101,99,116,95,105,110,116,101,103,114,97,116,101,100,95,105,110,116,101,110,115,105,116,121>>],
    [attr |-> "_feature_color_object_mass_displacement", stub |-> TRUE, moment |-> <<>>,
     name |-> <<95,102,101,97,116,117,114,101,95,99,111,108,111,114,95,111,98,106,101,99,116,95,109,97,115,115,95,100,105,115,112,108,97,99,101,109,101,110,116>>],
    [attr |-> "_feature_color_object_maximum_intensity", stub |-> FALSE, moment |-> <<>>,
     name |-> <<95,102,101,97,116,117,114,101,95,99,111,108,111,114,95,111,98,106,101,99,116,95,109,97,120,105,109,117,109,95,105,110,116,101,110,115,105,116,121>>],
    [attr |-> "_feature_color_object_maximum_intensity_x", stub |-> FALSE, moment |-> <<>>,
     name |-> <<95,102,101,97,116,117,114,101,95,99,111,108,111,114,95,111,98,106,101,99,116,95,109,97,120,105,109,117,109,95,105,110,116,101,110,115,105,116,121,95,120>>],
    [attr |-> "_feature_color_object_maximum_intensity_y", stub |-> FALSE, moment |-> <<>>,
     name |-> <<95,102,101,97,116,117,114,101,95,99,111,108,111,114,95,111,98,106,101,99,116,95,109,97,120,105,109,117,109,95,105,110,116,101,110,115,105,116,121,95,121>>],
    [attr |-> "_feature_color_object_mean_intensity", stub |-> FALSE, moment |-> <<>>,
     name |-> <<95,102,101,97,116,117,114,101,95,99,111,108,111,114,95,111,98,106,101,99,116,95,109,101,97,110,95,105,110,116,101,110,115,105,116,121>>],
    [attr |-> "_feature_color_object_median_absolute_deviation_intensity", stub |-> FALSE, moment |-> <<>>,
     name |-> <<95,102,101,97,116,117,114,101,95,99,111,108,111,114,95,111,98,106,101,99,116,95,109,101,100,105,97,110,95,97,98,115,111,108,117,116,101,95,100,101,118,105,97,116,105,111,110,95,105,110,116,101,110,115,105,116,121>>],
    [attr |-> "_feature_color_object_median_intensity", stub |-> FALSE, moment |-> <<>>,
     name |-> <<95,102,101,97,116,117,114,101,95,99,111,108,111,114,95,111,98,106,101,99,116,95,109,101,100,105,97,110,95,105,110,116,101,110,115,105,116,121>>],
    [attr |-> "_feature_color_object_minimum_intensity", stub |-> FALSE, moment |-> <<>>,
     name |-> <<95,102,101,97,116,117,114,101,95,99,111,108,111,114,95,111,98,106,101,99,116,95,109,105,110,105,109,117,109,95,105,110,116,101,110,115,105,116,121>>],
    [attr |-> "_feature_color_object_quantile_1_intensity", stub |-> FALSE, moment |-> <<>>,
     name |-> <<95,102,101,97,116,117,114,101,95,99,111,108,111,114,95,111,98,106,101,99,116,95,113,117,97,110,116,105,108,101,95,49,95,105,110,116,101,110,115,105,116,121>>],
    [attr |-> "_feature_color_object_quantile_3_intensity", stub |-> FALSE, moment |-> <<>>,
     name |-> <<95,102,101,97,116,117,114,101,95,99,111,108,111,114,95,111,98,106,101,99,116,95,113,117,97,110,116,105,108,101,95,51,95,105,110,116,101,110,115,105,116,121>>],
    [attr |-> "_feature_color_object_standard_deviation_intensity", stub |-> FALSE, moment |-> <<>>,
     name |-> <<95,102,101,97,116,117,114,101,95,99,111,108,111,114,95,111,98,106,101,99,116,95,115,116,97,110,100,97,114,100,95,100,101,118,105,97,116,105,111,110,95,105,110,116,101,110,115,105,116,121>>],
    [attr |-> "_feature_location_object_neighborhood_angle", stub |-> TRUE, moment |-> <<>>,
     name |-> <<95,102,101,97,116,117,114,101,95,108,111,99,97,116,105,111,110,95,111,98,106,101,99,116,95,110,101,105,103,104,98,111,114,104,111,111,100,95,97,110,103,108,101>>],
    [attr |-> "_feature_location_object_neighborhood_closest_0_distance", stub |-> TRUE, moment |-> <<>>,
     name |-> <<95,102,101,97,116,117,114,101,95,108,111,99,97,116,105,111,110,95,111,98,106,101,99,116,95,110,101,105,103,104,98,111,114,104,111,111,100,95,99,108,111,115,101,115,116,95,48,95,100,105,115,116,97,110,99,101>>],
    [attr |-> "_feature_location_object_neighborhood_closest_0_object_index", stub |-> TRUE, moment |-> <<>>,
     name |-> <<95,102,101,97,116,117,114,101,95,108,111,99,97,116,105,111,110,95,111,98,106,101,99,116,95,110,101,105,103,104,98,111,114,104,111,111,100,95,99,108,111,115,101,115,116,95,48,95,111,98,106,101,99,116,95,105,110,100,101,120>>],
    [attr |-> "_feature_location_object_neighborhood_closest_1_distance", stub |-> TRUE, moment |-> <<>>,
     name |-> <<95,102,101,97,116,117,114,101,95,108,111,99,97,116,105,111,110,95,111,98,106,101,99,116,95,110,101,105,103,104,98,111,114,104,111,111,100,95,99,108,111,115,101,115,116,95,49,95,100,105,115,116,97,110,99,101>>],
    [attr |-> "_feature_location_object_neighborhood_closest_1_object_index", stub |-> TRUE, moment |-> <<>>,
     name |-> <<95,102,101,97,116,117,114,101,95,108,111,99,97,116,105,111,110,95,111,98,106,101,99,116,95,110,101,105,103,104,98,111,114,104,111,111,100,95,99,108,111,115,101,115,116,95,49,95,111,98,106,101,99,116,95,105,110,100,101,120>>],
    [attr |-> "_feature_location_object_neighborhood_closest_2_distance", stub |-> TRUE, moment |-> <<>>,
     name |-> <<95,102,101,97,116,117,114,101,95,108,111,99,97,116,105,111,110,95,111,98,106,101,99,116,95,110,101,105,103,104,98,111,114,104,111,111,100,95,99,108,111,115,101,115,116,95,50,95,100,105,115,116,97,110,99,101>>],
    [attr |-> "_feature_location_object_neighborhood_closest_2_object_index", stub |-> TRUE, moment |-> <<>>,
     name |-> <<95,102,101,97,116,117,114,101,95,108,111,99,97,116,105,111,110,95,111,98,106,101,99,116,95,110,101,105,103,104,98,111,114,104,111,111,100,95,99,108,111,115,101,115,116,95,50,95,111,98,106,101,99,116,95,105,110,100,101,120>>],
    [attr |-> "_feature_location_object_neighborhood_neighbors", stub |-> TRUE, moment |-> <<>>,
     name |-> <<95,102,101,97,116,117,114,101,95,108,111,99,97,116,105,111,110,95,111,98,106,101,99,116,95,110,101,105,103,104,98,111,114,104,111,111,100,95,110,101,105,103,104,98,111,114,115>>],
    [attr |-> "_feature_location_object_neighborhood_touching", stub |-> TRUE, moment |-> <<>>,
     name |-> <<95,102,101,97,116,117,114,101,95,108,111,99,97,116,105,111,110,95,111,98,106,101,99,116,95,110,101,105,103,104,98,111,114,104,111,111,100,95,116,111,117,99,104,105,110,103>>],
    [attr |-> "_feature_metadata_image_checksum", stub |-> TRUE, moment |-> <<>>,
     name |-> <<95,102,101,97,116,117,114,101,95,109,101,116,97,100,97,116,97,95,105,109,97,103,101,95,99,104,101,99,107,115,117,109>>],
    [attr |-> "_feature_metadata_image_filename", stub |-> TRUE, moment |-> <<>>,
     name |-> <<95,102,101,97,116,117,114,101,95,109,101,116,97,100,97,116,97,95,105,109,97,103,101,95,102,105,108,101,110,97,109,101>>],
    [attr |-> "_feature_metadata_layer_name", stub |-> TRUE, moment |-> <<>>,
     name |-> <<95,102,101,97,116,117,114,101,95,109,101,116,97,100,97,116,97,95,108,97,121,101,114,95,110,97,109,101>>],
    [attr |-> "_feature_metadata_layer_type", stub |-> TRUE, moment |-> <<>>,
     name |-> <<95,102,101,97,116,117,114,101,95,109,101,116,97,100,97,116,97,95,108,97,121,101,114,95,116,121,112,101>>],
    [attr |-> "_feature_metadata_object_index", stub |-> FALSE, moment |-> <<>>,
     name |-> <<95,102,101,97,116,117,114,101,95,109,101,116,97,100,97,116,97,95,111,98,106,101,99,116,95,105,110,100,101,120>>],
    [attr |-> "_feature_shape_image_area", stub |-> FALSE, moment |-> <<>>,
     name |-> <<95,102,101,97,116,117,114,101,95,115,104,97,112,101,95,105,109,97,103,101,95,97,114,101,97>>],
    [attr |-> "_feature_shape_image_skeleton_branches", stub |-> TRUE, moment |-> <<>>,
     name |-> <<95,102,101,97,116,117,114,101,95,115,104,97,112,101,95,105,109,97,103,101,95,115,107,101,108,101,116,111,110,95,98,114,97,110,99,104,101,115>>],
    [attr |-> "_feature_shape_image_skeleton_endpoints", stub |-> TRUE, moment |-> <<>>,
     name |-> <<95,102,101,97,116,117,114,101,95,115,104,97,112,101,95,105,109,97,103,101,95,115,107,101,108,101,116,111,110,95,101,110,100,112,111,105,110,116,115>>],
    [attr |-> "_feature_shape_image_skeleton_length", stub |-> TRUE, moment |-> <<>>,
     name |-> <<95,102,101,97,116,117,114,101,95,115,104,97,112,101,95,105,109,97,103,101,95,115,107,101,108,101,116,111,110,95,108,101,110,103,116,104>>],
    [attr |-> "_feature_shape_image_skeleton_trunks", stub |-> TRUE, moment |-> <<>>,
     name |-> <<95,102,101,97,116,117,114,101,95,115,104,97,112,101,95,105,109,97,103,101,95,115,107,101,108,101,116,111,110,95,116,114,117,110,107,115>>],
    [attr |-> "_feature_shape_object_area", stub |-> TRUE, moment |-> <<>>,
     name |-> <<95,102,101,97,116,117,114,101,95,115,104,97,112,101,95,111,98,106,101,99,116,95,97,114,101,97>>],
    [attr |-> "_feature_shape_object_bounding_box_area", stub |-> TRUE, moment |-> <<>>,
     name |-> <<95,102,101,97,116,117,114,101,95,115,104,97,112,101,95,111,98,106,101,99,116,95,98,111,117,110,100,105,110,103,95,98,111,120,95,97,114,101,97>>],
    [attr |-> "_feature_shape_object_bounding_box_maximum_x", stub |-> TRUE, moment |-> <<>>,
     name |-> <<95,102,101,97,116,117,114,101,95,115,104,97,112,101,95,111,98,106,101,99,116,95,98,111,117,110,100,105,110,103,95,98,111,120,95,109,97,120,105,109,117,109,95,120>>],
    [attr |-> "_feature_shape_object_bounding_box_maximum_y", stub |-> TRUE, moment |-> <<>>,
     name |-> <<95,102,101,97,116,117,114,101,95,115,104,97,112,101,95,111,98,106,101,99,116,95,98,111,117,110,100,105,110,103,95,98,111,120,95,109,97,120,105,109,117,109,95,121>>],
    [attr |-> "_feature_shape_object_bounding_box_maximum_z", stub |-> TRUE, moment |-> <<>>,
     name |-> <<95,102,101,97,116,117,114,101,95,115,104,97,112,101,95,111,98,106,101,99,116,95,98,111,117,110,100,105,110,103,95,98,111,120,95,109,97,120,105,109,117,109,95,122>>],
    [attr |-> "_feature_shape_object_bounding_box_minimum_x", stub |-> TRUE, moment |-> <<>>,
     name |-> <<95,102,101,97,116,117,114,101,95,115,104,97,112,101,95,111,98,106,101,99,116,95,98,111,117,110,100,105,110,103,95,98,111,120,95,109,105,110,105,109,117,109,95,120>>],
    [attr |-> "_feature_shape_object_bounding_box_minimum_y", stub |-> TRUE, moment |-> <<>>,
     name |-> <<95,102,101,97,116,117,114,101,95,115,104,97,112,101,95,111,98,106,101,99,116,95,98,111,117,110,100,105,110,103,95,98,111,120,95,109,105,110,105,109,117,109,95,121>>],
    [attr |-> "_feature_shape_object_bounding_box_minimum_z", stub |-> TRUE, moment |-> <<>>,
     name |-> <<95,102,101,97,116,117,114,101,95,115,104,97,112,101,95,111,98,106,101,99,116,95,98,111,117,110,100,105,110,103,95,98,111,120,95,109,105,110,105,109,117,109,95,122>>],
    [attr |-> "_feature_shape_object_bounding_box_volume", stub |-> TRUE, moment |-> <<>>,
     name |-> <<95,102,101,97,116,117,114,101,95,115,104,97,112,101,95,111,98,106,101,99,116,95,98,111,117,110,100,105,110,103,95,98,111,120,95,118,111,108,117,109,101>>],
    [attr |-> "_feature_shape_object_central_moment_0_0_0", stub |-> TRUE, moment |-> <<>>,
     name |-> <<95,102,101,97,116,117,114,101,95,115,104,97,112,101,95,111,98,106,101,99,116,95,99,101,110,116,114,97,108,95,109,111,109,101,110,116,95,48,95,48,95,48>>],
    [attr |-> "_feature_shape_object_central_moment_0_0_1", stub |-> TRUE, moment |-> <<>>,
     name |-> <<95,102,101,97,116,117,114,101,95,115,104,97,112,101,95,111,98,106,101,99,116,95,99,101,110,116,114,97,108,95,109,111,109,101,110,116,95,48,95,48,95,49>>],
    [attr |-> "_feature_shape_object_central_moment_0_1_2", stub |-> TRUE, moment |-> <<>>,
     name |-> <<95,102,101,97,116,117,114,101,95,115,104,97,112,101,95,111,98,106,101,99,116,95,99,101,110,116,114,97,108,95,109,111,109,101,110,116,95,48,95,49,95,50>>],
    [attr |-> "_feature_shape_object_central_moment_0_1_3", stub |-> TRUE, moment |-> <<>>,
     name |-> <<95,102,101,97,116,117,114,101,95,115,104,97,112,101,95,111,98,106,101,99,116,95,99,101,110,116,114,97,108,95,109,111,109,101,110,116,95,48,95,49,95,51>>],
    [attr |-> "_feature_shape_object_central_moment_1_2_0", stub |-> TRUE, moment |-> <<>>,
     name |-> <<95,102,101,97,116,117,114,101,95,115,104,97,112,101,95,111,98,106,101,99,116,95,99,101,110,116,114,97,108,95,109,111,109,101,110,116,95,49,95,50,95,48>>],
    [attr |-> "_feature_shape_object_central_moment_1_2_1", stub |-> TRUE, moment |-> <<>>,
     name |-> <<95,102,101,97,116,117,114,101,95,115,104,97,112,101,95,111,98,106,101,99,116,95,99,101,110,116,114,97,108,95,109,111,109,101,110,116,95,49,95,50,95,49>>],
    [attr |-> "_feature_shape_object_central_moment_1_3_2", stub |-> TRUE, moment |-> <<>>,
     name |-> <<95,102,101,97,116,117,114,101,95,115,104,97,112,101,95,111,98,106,101,99,116,95,99,101,110,116,114,97,108,95,109,111,109,101,110,116,95,49,95,51,95,50>>],
    [attr |-> "_feature_shape_object_central_moment_1_3_3", stub |-> TRUE, moment |-> <<>>,
     name |-> <<95,102,101,97,116,117,114,101,95,115,104,97,112,101,95,111,98,106,101,99,116,95,99,101,110,116,114,97,108,95,109,111,109,101,110,116,95,49,95,51,95,51>>],
    [attr |-> "_feature_shape_object_central_moment_2_0_0", stub |-> TRUE, moment |-> <<>>,
     name |-> <<95,102,101,97,116,117,114,101,95,115,104,97,112,101,95,111,98,106,101,99,116,95,99,101,110,116,114,97,108,95,109,111,109,101,110,116,95,50,95,48,95,48>>],
    [attr |-> "_feature_shape_object_central_moment_2_0_1", stub |-> TRUE, moment |-> <<>>,
     name |-> <<95,102,101,97,116,117,114,101,95,115,104,97,112,101,95,111,98,106,101,99,116,95,99,101,110,116,114,97,108,95,109,111,109,101,110,116,95,50,95,48,95,49>>],
    [attr |-> "_feature_shape_object_central_moment_2_1_2", stub |-> TRUE, moment |-> <<>>,
     name |-> <<95,102,101,97,116,117,114,101,95,115,104,97,112,101,95,111,98,106,101,99,116,95,99,101,110,116,114,97,108,95,109,111,109,101,110,116,95,50,95,49,95,50>>],
    [attr |-> "_feature_shape_object_central_moment_2_1_3", stub |-> TRUE, moment |-> <<>>,
     name |-> <<95,102,101,97,116,117,114,101,95,115,104,97,112,101,95,111,98,106,101,99,116,95,99,101,110,116,114,97,108,95,109,111,109,101,110,116,95,50,95,49,95,51>>],
    [attr |-> "_feature_shape_object_central_moment_3_2_0", stub |-> TRUE, moment |-> <<>>,
     name |-> <<95,102,101,97,116,117,114,101,95,115,104,97,112,101,95,111,98,106,101,99,116,95,99,101,110,116,114,97,108,95,109,111,109,101,110,116,95,51,95,50,95,48>>],
    [attr |-> "_feature_shape_object_central_moment_3_2_1", stub |-> TRUE, moment |-> <<>>,
     name |-> <<95,102,101,97,116,117,114,101,95,115,104,97,112,101,95,111,98,106,101,99,116,95,99,101,110,116,114,97,108,95,109,111,109,101,110,116,95,51,95,50,95,49>>],
    [attr |-> "_feature_shape_object_central_moment_3_3_2", stub |-> TRUE, moment |-> <<>>,
     name |-> <<95,102,101,97,116,117,114,101,95,115,104,97,112,101,95,111,98,106,101,99,116,95,99,101,110,116,114,97,108,95,109,111,109,101,110,116,95,51,95,51,95,50>>],
    [attr |-> "_feature_shape_object_central_moment_3_3_3", stub |-> TRUE, moment |-> <<>>,
     name |-> <<95,102,101,97,116,117,114,101,95,115,104,97,112,101,95,111,98,106,101,99,116,95,99,101,110,116,114,97,108,95,109,111,109,101,110,116,95,51,95,51,95,51>>],
    [attr |-> "_feature_shape_object_centroid_x", stub |-> FALSE, moment |-> <<>>,
     name |-> <<95,102,101,97,116,117,114,101,95,115,104,97,112,101,95,111,98,106,101,99,116,95,99,101,110,116,114,111,105,100,95,120>>],
    [attr |-> "_feature_shape_object_centroid_y", stub |-> FALSE, moment |-> <<>>,
     name |-> <<95,102,101,97,116,117,114,101,95,115,104,97,112,101,95,111,98,106,101,99,116,95,99,101,110,116,114,111,105,100,95,121>>],
    [attr |-> "_feature_shape_object_centroid_z", stub |-> TRUE, moment |-> <<>>,
     name |-> <<95,102,101,97,116,117,114,101,95,115,104,97,112,101,95,111,98,106,101,99,116,95,99,101,110,116,114,111,105,100,95,122>>],
    [attr |-> "_feature_shape_object_compactness", stub |-> TRUE, moment |-> <<>>,
     name |-> <<95,102,101,97,116,117,114,101,95,115,104,97,112,101,95,111,98,106,101,99,116,95,99,111,109,112,97,99,116,110,101,115,115>>],
    [attr |-> "_feature_shape_object_eccentricity", stub |-> TRUE, moment |-> <<>>,
     name |-> <<95,102,101,97,116,117,114,101,95,115,104,97,112,101,95,111,98,106,101,99,116,95,101,99,99,101,110,116,114,105,99,105,116,121>>],
    [attr |-> "_feature_shape_object_equivalent_diameter", stub |-> FALSE, moment |-> <<>>,
     name |-> <<95,102,101,97,116,117,114,101,95,115,104,97,112,101,95,111,98,106,101,99,116,95,101,113,117,105,118,97,108,101,110,116,95,100,105,97,109,101,116,101,114>>],
    [attr |-> "_feature_shape_object_euler_number", stub |-> FALSE, moment |-> <<>>,
     name |-> <<95,102,101,97,116,117,114,101,95,115,104,97,112,101,95,111,98,106,101,99,116,95,101,117,108,101,114,95,110,117,109,98,101,114>>],
    [attr |-> "_feature_shape_object_extent", stub |-> FALSE, moment |-> <<>>,
     name |-> <<95,102,101,97,116,117,114,101,95,115,104,97,112,101,95,111,98,106,101,99,116,95,101,120,116,101,110,116>>],
    [attr |-> "_feature_shape_object_form_factor", stub |-> TRUE, moment |-> <<>>,
     name |-> <<95,102,101,97,116,117,114,101,95,115,104,97,112,101,95,111,98,106,101,99,116,95,102,111,114,109,95,102,97,99,116,111,114>>],
    [attr |-> "_feature_shape_object_hu_moment_0", stub |-> TRUE, moment |-> <<>>,
     name |-> <<95,102,101,97,116,117,114,101,95,115,104,97,112,101,95,111,98,106,101,99,116,95,104,117,95,109,111,109,101,110,116,95,48>>],
    [attr |-> "_feature_shape_object_hu_moment_1", stub |-> TRUE, moment |-> <<>>,
     name |-> <<95,102,101,97,116,117,114,101,95,115,104,97,112,101,95,111,98,106,101,99,116,95,104,117,95,109,111,109,101,110,116,95,49>>],
    [attr |-> "_feature_shape_object_hu_moment_2", stub |-> TRUE, moment |-> <<>>,
     name |-> <<95,102,101,97,116,117,114,101,95,115,104,97,112,101,95,111,98,106,101,99,116,95,104,117,95,109,111,109,101,110,116,95,50>>],
    [attr |-> "_feature_shape_object_hu_moment_3", stub |-> TRUE, moment |-> <<>>,
     name |-> <<95,102,101,97,116,117,114,101,95,115,104,97,112,101,95,111,98,106,101,99,116,95,104,117,95,109,111,109,101,110,116,95,51>>],
    [attr |-> "_feature_shape_object_hu_moment_4", stub |-> TRUE, moment |-> <<>>,
     name |-> <<95,102,101,97,116,117,114,101,95,115,104,97,112,101,95,111,98,106,101,99,116,95,104,117,95,109,111,109,101,110,116,95,52>>],
    [attr |-> "_feature_shape_object_hu_moment_5", stub |-> TRUE, moment |-> <<>>,
     name |-> <<95,102,101,97,116,117,114,101,95,115,104,97,112,101,95,111,98,106,101,99,116,95,104,117,95,109,111,109,101,110,116,95,53>>],
    [attr |-> "_feature_shape_object_hu_moment_6", stub |-> TRUE, moment |-> <<>>,
     name |-> <<95,102,101,97,116,117,114,101,95,115,104,97,112,101,95,111,98,106,101,99,116,95,104,117,95,109,111,109,101,110,116,95,54>>],
    [attr |-> "_feature_shape_object_inertia_tensor_eigenvalues_x", stub |-> TRUE, moment |-> <<>>,
     name |-> <<95,102,101,97,116,117,114,101,95,115,104,97,112,101,95,111,98,106,101,99,116,95,105,110,101,114,116,105,97,95,116,101,110,115,111,114,95,101,105,103,101,110,118,97,108,117,101,115,95,120>>],
    [attr |-> "_feature_shape_object_inertia_tensor_eigenvalues_y", stub |-> TRUE, moment |-> <<>>,
     name |-> <<95,102,101,97,116,117,114,101,95,115,104,97,112,101,95,111,98,106,101,99,116,95,105,110,101,114,116,105,97,95,116,101,110,115,111,114,95,101,105,103,101,110,118,97,108,117,101,115,95,121>>],
    [attr |-> "_feature_shape_object_inertia_tensor_eigenvalues_z", stub |-> TRUE, moment |-> <<>>,
     name |-> <<95,102,101,97,116,117,114,101,95,115,104,97,112,101,95,111,98,106,101,99,116,95,105,110,101,114,116,105,97,95,116,101,110,115,111,114,95,101,105,103,101,110,118,97,108,117,101,115,95,122>>],
    [attr |-> "_feature_shape_object_inertia_tensor_x_x", stub |-> TRUE, moment |-> <<>>,
     name |-> <<95,102,101,97,116,117,114,101,95,115,104,97,112,101,95,111,98,106,101,99,116,95,105,110,101,114,116,105,97,95,116,101,110,115,111,114,95,120,95,120>>],
    [attr |-> "_feature_shape_object_inertia_tensor_x_y", stub |-> TRUE, moment |-> <<>>,
     name |-> <<95,102,101,97,116,117,114,101,95,115,104,97,112,101,95,111,98,106,101,99,116,95,105,110,101,114,116,105,97,95,116,101,110,115,111,114,95,120,95,121>>],
    [attr |-> "_feature_shape_object_inertia_tensor_x_z", stub |-> TRUE, moment |-> <<>>,
     name |-> <<95,102,101,97,116,117,114,101,95,115,104,97,112,101,95,111,98,106,101,99,116,95,105,110,101,114,116,105,97,95,116,101,110,115,111,114,95,120,95,122>>],
    [attr |-> "_feature_shape_object_inertia_tensor_y_x", stub |-> TRUE, moment |-> <<>>,
     name |-> <<95,102,101,97,116,117,114,101,95,115,104,97,112,101,95,111,98,106,101,99,116,95,105,110,101,114,116,105,97,95,116,101,110,115,111,114,95,121,95,120>>],
    [attr |-> "_feature_shape_object_inertia_tensor_y_y", stub |-> TRUE, moment |-> <<>>,
     name |-> <<95,102,101,97,116,117,114,101,95,115,104,97,112,101,95,111,98,106,101,99,116,95,105,110,101,114,116,105,97,95,116,101,110,115,111,114,95,121,95,121>>],
    [attr |-> "_feature_shape_object_inertia_tensor_y_z", stub |-> TRUE, moment |-> <<>>,
     name |-> <<95,102,101,97,116,117,114,101,95,115,104,97,112,101,95,111,98,106,101,99,116,95,105,110,101,114,116,105,97,95,116,101,110,115,111,114,95,121,95,122>>],
    [attr |-> "_feature_shape_object_inertia_tensor_z_x", stub |-> TRUE, moment |-> <<>>,
     name |-> <<95,102,101,97,116,117,114,101,95,115,104,97,112,101,95,111,98,106,101,99,116,95,105,110,101,114,116,105,97,95,116,101,110,115,111,114,95,122,95,120>>],
    [attr |-> "_feature_shape_object_inertia_tensor_z_y", stub |-> TRUE, moment |-> <<>>,
     name |-> <<95,102,101,97,116,117,114,101,95,115,104,97,112,101,95,111,98,106,101,99,116,95,105,110,101,114,116,105,97,95,116,101,110,115,111,114,95,122,95,121>>],
    [attr |-> "_feature_shape_object_inertia_tensor_z_z", stub |-> TRUE, moment |-> <<>>,
     name |-> <<95,102,101,97,116,117,114,101,95,115,104,97,112,101,95,111,98,106,101,99,116,95,105,110,101,114,116,105,97,95,116,101,110,115,111,114,95,122,95,122>>],
    [attr |-> "_feature_shape_object_major_axis_length", stub |-> TRUE, moment |-> <<>>,
     name |-> <<95,102,101,97,116,117,114,101,95,115,104,97,112,101,95,111,98,106,101,99,116,95,109,97,106,111,114,95,97,120,105,115,95,108,101,110,103,116,104>>],
    [attr |-> "_feature_shape_object_maximum_feret_diameter", stub |-> TRUE, moment |-> <<>>,
     name |-> <<95,102,101,97,116,117,114,101,95,115,104,97,112,101,95,111,98,106,101,99,116,95,109,97,120,105,109,117,109,95,102,101,114,101,116,95,100,105,97,109,101,116,101,114>>],
    [attr |-> "_feature_shape_object_maximum_radius", stub |-> TRUE, moment |-> <<>>,
     name |-> <<95,102,101,97,116,117,114,101,95,115,104,97,112,101,95,111,98,106,101,99,116,95,109,97,120,105,109,117,109,95,114,97,100,105,117,115>>],
    [attr |-> "_feature_shape_object_mean_radius", stub |-> TRUE, moment |-> <<>>,
     name |-> <<95,102,101,97,116,117,114,101,95,115,104,97,112,101,95,111,98,106,101,99,116,95,109,101,97,110,95,114,97,100,105,117,115>>],
    [attr |-> "_feature_shape_object_median_radius", stub |-> TRUE, moment |-> <<>>,
     name |-> <<95,102,101,97,116,117,114,101,95,115,104,97,112,101,95,111,98,106,101,99,116,95,109,101,100,105,97,110,95,114,97,100,105,117,115>>],
    [attr |-> "_feature_shape_object_minimum_feret_diameter", stub |-> TRUE, moment |-> <<>>,
     name |-> <<95,102,101,97,116,117,114,101,95,115,104,97,112,101,95,111,98,106,101,99,116,95,109,105,110,105,109,117,109,95,102,101,114,101,116,95,100,105,97,109,101,116,101,114>>],
    [attr |-> "_feature_shape_object_minor_axis_length", stub |-> TRUE, moment |-> <<>>,
     name |-> <<95,102,101,97,116,117,114,101,95,115,104,97,112,101,95,111,98,106,101,99,116,95,109,105,110,111,114,95,97,120,105,115,95,108,101,110,103,116,104>>],
    [attr |-> "_feature_shape_object_normalized_moment_x_y", stub |-> TRUE, moment |-> <<>>,
     name |-> <<95,102,101,97,116,117,114,101,95,115,104,97,112,101,95,111,98,106,101,99,116,95,110,111,114,109,97,108,105,122,101,100,95,109,111,109,101,110,116,95,120,95,121>>],
    [attr |-> "_feature_shape_object_orientation", stub |-> TRUE, moment |-> <<>>,
     name |-> <<95,102,101,97,116,117,114,101,95,115,104,97,112,101,95,111,98,106,101,99,116,95,111,114,105,101,110,116,97,116,105,111,110>>],
    [attr |-> "_feature_shape_object_perimeter", stub |-> TRUE, moment |-> <<>>,
     name |-> <<95,102,101,97,116,117,114,101,95,115,104,97,112,101,95,111,98,106,101,99,116,95,112,101,114,105,109,101,116,101,114>>],
    [attr |-> "_feature_shape_object_solidity", stub |-> TRUE, moment |-> <<>>,
     name |-> <<95,102,101,97,116,117,114,101,95,115,104,97,112,101,95,111,98,106,101,99,116,95,115,111,108,105,100,105,116,121>>],
    [attr |-> "_feature_shape_object_spatial_moment_0_0_0", stub |-> FALSE, moment |-> <<0, 0, 0>>,
     name |-> <<95,102,101,97,116,117,114,101,95,115,104,97,112,101,95,111,98,106,101,99,116,95,115,112,97,116,105,97,108,95,109,111,109,101,110,116,95,48,95,48,95,48>>],
    [attr |-> "_feature_shape_object_spatial_moment_0_0_1", stub |-> FALSE, moment |-> <<0, 0, 1>>,
     name |-> <<95,102,101,97,116,117,114,101,95,115,104,97,112,101,95,111,98,106,101,99,116,95,115,112,97,116,105,97,108,95,109,111,109,101,110,116,95,48,95,48,95,49>>],
    [attr |-> "_feature_shape_object_spatial_moment_0_0_2", stub |-> FALSE, moment |-> <<0, 0, 2>>,
     name |-> <<95,102,101,97,116,117,114,101,95,115,104,97,112,101,95,111,98,106,101,99,116,95,115,112,97,116,105,97,108,95,109,111,109,101,110,116,95,48,95,48,95,50>>],
    [attr |-> "_feature_shape_object_spatial_moment_0_0_3", stub |-> FALSE, moment |-> <<0, 0, 3>>,
     name |-> <<95,102,101,97,116,117,114,101,95,115,104,97,112,101,95,111,98,106,101,99,116,95,115,112,97,116,105,97,108,95,109,111,109,101,110,116,95,48,95,48,95,51>>],
    [attr |-> "_feature_shape_object_spatial_moment_0_1_0", stub |-> FALSE, moment |-> <<0, 1, 0>>,
     name |-> <<95,102,101,97,116,117,114,101,95,115,104,97,112,101,95,111,98,106,101,99,116,95,115,112,97,116,105,97,108,95,109,111,109,101,110,116,95,48,95,49,95,48>>],
    [attr |-> "_feature_shape_object_spatial_moment_0_1_1", stub |-> FALSE, moment |-> <<0, 1, 1>>,
     name |-> <<95,102,101,97,116,117,114,101,95,115,104,97,112,101,95,111,98,106,101,99,116,95,115,112,97,116,105,97,108,95,109,111,109,101,110,116,95,48,95,49,95,49>>],
    [attr |-> "_feature_shape_object_spatial_moment_0_1_2", stub |-> FALSE, moment |-> <<0, 1, 2>>,
     name |-> <<95,102,101,97,116,117,114,101,95,115,104,97,112,101,95,111,98,106,101,99,116,95,115,112,97,116,105,97,108,95,109,111,109,101,110,116,95,48,95,49,95,50>>],
    [attr |-> "_feature_shape_object_spatial_moment_0_1_3", stub |-> FALSE, moment |-> <<0, 1, 3>>,
     name |-> <<95,102,101,97,116,117,114,101,95,115,104,97,112,101,95,111,98,106,101,99,116,95,115,112,97,116,105,97,108,95,109,111,109,101,110,116,95,48,95,49,95,51>>],
    [attr |-> "_feature_shape_object_spatial_moment_0_2_0", stub |-> FALSE, moment |-> <<0, 2, 0>>,
     name |-> <<95,102,101,97,116,117,114,101,95,115,104,97,112,101,95,111,98,106,101,99,116,95,115,112,97,116,105,97,108,95,109,111,109,101,110,116,95,48,95,50,95,48>>],
    [attr |-> "_feature_shape_object_spatial_moment_0_2_1", stub |-> FALSE, moment |-> <<0, 2, 1>>,
     name |-> <<95,102,101,97,116,117,114,101,95,115,104,97,112,101,95,111,98,106,101,99,116,95,115,112,97,116,105,97,108,95,109,111,109,101,110,116,95,48,95,50,95,49>>],
    [attr |-> "_feature_shape_object_spatial_moment_0_2_2", stub |-> FALSE, moment |-> <<0, 2, 2>>,
     name |-> <<95,102,101,97,116,117,114,101,95,115,104,97,112,101,95,111,98,106,101,99,116,95,115,112,97,116,105,97,108,95,109,111,109,101,110,116,95,48,95,50,95,50>>],
    [attr |-> "_feature_shape_object_spatial_moment_0_2_3", stub |-> FALSE, moment |-> <<0, 2, 3>>,
     name |-> <<95,102,101,97,116,117,114,101,95,115,104,97,112,101,95,111,98,106,101,99,116,95,115,112,97,116,105,97,108,95,109,111,109,101,110,116,95,48,95,50,95,51>>],
    [attr |-> "_feature_shape_object_spatial_moment_0_3_0", stub |-> FALSE, moment |-> <<0, 3, 0>>,
     name |-> <<95,102,101,97,116,117,114,101,95,115,104,97,112,101,95,111,98,106,101,99,116,95,115,112,97,116,105,97,108,95,109,111,109,101,110,116,95,48,95,51,95,48>>],
    [attr |-> "_feature_shape_object_spatial_moment_0_3_1", stub |-> FALSE, moment |-> <<0, 3, 1>>,
     name |-> <<95,102,101,97,116,117,114,101,95,115,104,97,112,101,95,111,98,106,101,99,116,95,115,112,97,116,105,97,108,95,109,111,109,101,110,116,95,48,95,51,95,49>>],
    [attr |-> "_feature_shape_object_spatial_moment_0_3_2", stub |-> FALSE, moment |-> <<0, 3, 2>>,
     name |-> <<95,102,101,97,116,117,114,101,95,115,104,97,112,101,95,111,98,106,101,99,116,95,115,112,97,116,105,97,108,95,109,111,109,101,110,116,95,48,95,51,95,50>>],
    [attr |-> "_feature_shape_object_spatial_moment_0_3_3", stub |-> FALSE, moment |-> <<0, 3, 3>>,
     name |-> <<95,102,101,97,116,117,114,101,95,115,104,97,112,101,95,111,98,106,101,99,116,95,115,112,97,116,105,97,108,95,109,111,109,101,110,116,95,48,95,51,95,51>>],
    [attr |-> "_feature_shape_object_spatial_moment_1_0_0", stub |-> FALSE, moment |-> <<1, 0, 0>>,
     name |-> <<95,102,101,97,116,117,114,101,95,115,104,97,112,101,95,111,98,106,101,99,116,95,115,112,97,116,105,97,108,95,109,111,109,101,110,116,95,49,95,48,95,48>>],
    [attr |-> "_feature_shape_object_spatial_moment_1_0_1", stub |-> FALSE, moment |-> <<1, 0, 1>>,
     name |-> <<95,102,101,97,116,117,114,101,95,115,104,97,112,101,95,111,98,106,101,99,116,95,115,112,97,116,105,97,108,95,109,111,109,101,110,116,95,49,95,48,95,49>>],
    [attr |-> "_feature_shape_object_spatial_moment_1_0_2", stub |-> FALSE, moment |-> <<1, 0, 2>>,
     name |-> <<95,102,101,97,116,117,114,101,95,115,104,97,112,101,95,111,98,106,101,99,116,95,115,112,97,116,105,97,108,95,109,111,109,101,110,116,95,49,95,48,95,50>>],
    [attr |-> "_feature_shape_object_spatial_moment_1_0_3", stub |-> FALSE, moment |-> <<1, 0, 3>>,
     name |-> <<95,102,101,97,116,117,114,101,95,115,104,97,112,101,95,111,98,106,101,99,116,95,115,112,97,116,105,97,108,95,109,111,109,101,110,116,95,49,95,48,95,51>>],
    [attr |-> "_feature_shape_object_spatial_moment_1_1_0", stub |-> FALSE, moment |-> <<1, 1, 0>>,
     name |-> <<95,102,101,97,116,117,114,101,95,115,104,97,112,101,95,111,98,106,101,99,116,95,115,112,97,116,105,97,108,95,109,111,109,101,110,116,95,49,95,49,95,48>>],
    [attr |-> "_feature_shape_object_spatial_moment_1_1_1", stub |-> FALSE, moment |-> <<1, 1, 1>>,
     name |-> <<95,102,101,97,116,117,114,101,95,115,104,97,112,101,95,111,98,106,101,99,116,95,115,112,97,116,105,97,108,95,109,111,109,101,110,116,95,49,95,49,95,49>>],
    [attr |-> "_feature_shape_object_spatial_moment_1_1_2", stub |-> FALSE, moment |-> <<1, 1, 2>>,
     name |-> <<95,102,101,97,116,117,114,101,95,115,104,97,112,101,95,111,98,106,101,99,116,95,115,112,97,116,105,97,108,95,109,111,109,101,110,116,95,49,95,49,95,50>>],
    [attr |-> "_feature_shape_object_spatial_moment_1_1_3", stub |-> FALSE, moment |-> <<1, 1, 3>>,
     name |-> <<95,102,101,97,116,117,114,101,95,115,104,97,112,101,95,111,98,106,101,99,116,95,115,112,97,116,105,97,108,95,109,111,109,101,110,116,95,49,95,49,95,51>>],
    [attr |-> "_feature_shape_object_spatial_moment_1_2_0", stub |-> FALSE, moment |-> <<1, 2, 0>>,
     name |-> <<95,102,101,97,116,117,114,101,95,115,104,97,112,101,95,111,98,106,101,99,116,95,115,112,97,116,105,97,108,95,109,111,109,101,110,116,95,49,95,50,95,48>>],
    [attr |-> "_feature_shape_object_spatial_moment_1_2_1", stub |-> FALSE, moment |-> <<1, 2, 1>>,
     name |-> <<95,102,101,97,116,117,114,101,95,115,104,97,112,101,95,111,98,106,101,99,116,95,115,112,97,116,105,97,108,95,109,111,109,101,110,116,95,49,95,50,95,49>>],
    [attr |-> "_feature_shape_object_spatial_moment_1_2_2", stub |-> FALSE, moment |-> <<1, 2, 2>>,
     name |-> <<95,102,101,97,116,117,114,101,95,115,104,97,112,101,95,111,98,106,101,99,116,95,115,112,97,116,105,97,108,95,109,111,109,101,110,116,95,49,95,50,95,50>>],
    [attr |-> "_feature_shape_object_spatial_moment_1_2_3", stub |-> FALSE, moment |-> <<1, 2, 3>>,
     name |-> <<95,102,101,97,116,117,114,101,95,115,104,97,112,101,95,111,98,106,101,99,116,95,115,112,97,116,105,97,108,95,109,111,109,101,110,116,95,49,95,50,95,51>>],
    [attr |-> "_feature_shape_object_spatial_moment_1_3_0", stub |-> FALSE, moment |-> <<1, 3, 0>>,
     name |-> <<95,102,101,97,116,117,114,101,95,115,104,97,112,101,95,111,98,106,101,99,116,95,115,112,97,116,105,97,108,95,109,111,109,101,110,116,95,49,95,51,95,48>>],
    [attr |-> "_feature_shape_object_spatial_moment_1_3_1", stub |-> FALSE, moment |-> <<1, 3, 1>>,
     name |-> <<95,102,101,97,116,117,114,101,95,115,104,97,112,101,95,111,98,106,101,99,116,95,115,112,97,116,105,97,108,95,109,111,109,101,110,116,95,49,95,51,95,49>>],
    [attr |-> "_feature_shape_object_spatial_moment_1_3_2", stub |-> FALSE, moment |-> <<1, 3, 2>>,
     name |-> <<95,102,101,97,116,117,114,101,95,115,104,97,112,101,95,111,98,106,101,99,116,95,115,112,97,116,105,97,108,95,109,111,109,101,110,116,95,49,95,51,95,50>>],
    [attr |-> "_feature_shape_object_spatial_moment_1_3_3", stub |-> FALSE, moment |-> <<1, 3, 3>>,
     name |-> <<95,102,101,97,116,117,114,101,95,115,104,97,112,101,95,111,98,106,101,99,116,95,115,112,97,116,105,97,108,95,109,111,109,101,110,116,95,49,95,51,95,51>>],
    [attr |-> "_feature_shape_object_spatial_moment_2_0_0", stub |-> FALSE, moment |-> <<2, 0, 0>>,
     name |-> <<95,102,101,97,116,117,114,101,95,115,104,97,112,101,95,111,98,106,101,99,116,95,115,112,97,116,105,97,108,95,109,111,109,101,110,116,95,50,95,48,95,48>>],
    [attr |-> "_feature_shape_object_spatial_moment_2_0_1", stub |-> FALSE, moment |-> <<2, 0, 1>>,
     name |-> <<95,102,101,97,116,117,114,101,95,115,104,97,112,101,95,111,98,106,101,99,116,95,115,112,97,116,105,97,108,95,109,111,109,101,110,116,95,50,95,48,95,49>>],
    [attr |-> "_feature_shape_object_spatial_moment_2_0_2", stub |-> FALSE, moment |-> <<2, 0, 2>>,
     name |-> <<95,102,101,97,116,117,114,101,95,115,104,97,112,101,95,111,98,106,101,99,116,95,115,112,97,116,105,97,108,95,109,111,109,101,110,116,95,50,95,48,95,50>>],
    [attr |-> "_feature_shape_object_spatial_moment_2_0_3", stub |-> FALSE, moment |-> <<2, 0, 3>>,
     name |-> <<95,102,101,97,116,117,114,101,95,115,104,97,112,101,95,111,98,106,101,99,116,95,115,112,97,116,105,97,108,95,109,111,109,101,110,116,95,50,95,48,95,51>>],
    [attr |-> "_feature_shape_object_spatial_moment_2_1_0", stub |-> FALSE, moment |-> <<2, 1, 0>>,
     name |-> <<95,102,101,97,116,117,114,101,95,115,104,97,112,101,95,111,98,106,101,99,116,95,115,112,97,116,105,97,108,95,109,111,109,101,110,116,95,50,95,49,95,48>>],
    [attr |-> "_feature_shape_object_spatial_moment_2_1_1", stub |-> FALSE, moment |-> <<2, 1, 1>>,
     name |-> <<95,102,101,97,116,117,114,101,95,115,104,97,112,101,95,111,98,106,101,99,116,95,115,112,97,116,105,97,108,95,109,111,109,101,110,116,95,50,95,49,95,49>>],
    [attr |-> "_feature_shape_object_spatial_moment_2_1_2", stub |-> FALSE, moment |-> <<2, 1, 2>>,
     name |-> <<95,102,101,97,116,117,114,101,95,115,104,97,112,101,95,111,98,106,101,99,116,95,115,112,97,116,105,97,108,95,109,111,109,101,110,116,95,50,95,49,95,50>>],
    [attr |-> "_feature_shape_object_spatial_moment_2_1_3", stub |-> FALSE, moment |-> <<2, 1, 3>>,
     name |-> <<95,102,101,97,116,117,114,101,95,115,104,97,112,101,95,111,98,106,101,99,116,95,115,112,97,116,105,97,108,95,109,111,109,101,110,116,95,50,95,49,95,51>>],
    [attr |-> "_feature_shape_object_spatial_moment_2_2_0", stub |-> FALSE, moment |-> <<2, 2, 0>>,
     name |-> <<95,102,101,97,116,117,114,101,95,115,104,97,112,101,95,111,98,106,101,99,116,95,115,112,97,116,105,97,108,95,109,111,109,101,110,116,95,50,95,50,95,48>>],
    [attr |-> "_feature_shape_object_spatial_moment_2_2_1", stub |-> FALSE, moment |-> <<2, 2, 1>>,
     name |-> <<95,102,101,97,116,117,114,101,95,115,104,97,112,101,95,111,98,106,101,99,116,95,115,112,97,116,105,97,108,95,109,111,109,101,110,116,95,50,95,50,95,49>>],
    [attr |-> "_feature_shape_object_spatial_moment_2_2_2", stub |-> FALSE, moment |-> <<2, 2, 2>>,
     name |-> <<95,102,101,97,116,117,114,101,95,115,104,97,112,101,95,111,98,106,101,99,116,95,115,112,97,116,105,97,108,95,109,111,109,101,110,116,95,50,95,50,95,50>>],
    [attr |-> "_feature_shape_object_spatial_moment_2_2_3", stub |-> FALSE, moment |-> <<2, 2, 3>>,
     name |-> <<95,102,101,97,116,117,114,101,95,115,104,97,112,101,95,111,98,106,101,99,116,95,115,112,97,116,105,97,108,95,109,111,109,101,110,116,95,50,95,50,95,51>>],
    [attr |-> "_feature_shape_object_spatial_moment_2_3_0", stub |-> FALSE, moment |-> <<2, 3, 0>>,
     name |-> <<95,102,101,97,116,117,114,101,95,115,104,97,112,101,95,111,98,106,101,99,116,95,115,112,97,116,105,97,108,95,109,111,109,101,110,116,95,50,95,51,95,48>>],
    [attr |-> "_feature_shape_object_spatial_moment_2_3_1", stub |-> FALSE, moment |-> <<2, 3, 1>>,
     name |-> <<95,102,101,97,116,117,114,101,95,115,104,97,112,101,95,111,98,106,101,99,116,95,115,112,97,116,105,97,108,95,109,111,109,101,110,116,95,50,95,51,95,49>>],
    [attr |-> "_feature_shape_object_spatial_moment_2_3_2", stub |-> FALSE, moment |-> <<2, 3, 2>>,
     name |-> <<95,102,101,97,116,117,114,101,95,115,104,97,112,101,95,111,98,106,101,99,116,95,115,112,97,116,105,97,108,95,109,111,109,101,110,116,95,50,95,51,95,50>>],
    [attr |-> "_feature_shape_object_spatial_moment_2_3_3", stub |-> FALSE, moment |-> <<2, 3, 3>>,
     name |-> <<95,102,101,97,116,117,114,101,95,115,104,97,112,101,95,111,98,106,101,99,116,95,115,112,97,116,105,97,108,95,109,111,109,101,110,116,95,50,95,51,95,51>>],
    [attr |-> "_feature_shape_object_spatial_moment_3_0_0", stub |-> FALSE, moment |-> <<3, 0, 0>>,
     name |-> <<95,102,101,97,116,117,114,101,95,115,104,97,112,101,95,111,98,106,101,99,116,95,115,112,97,116,105,97,108,95,109,111,109,101,110,116,95,51,95,48,95,48>>],
    [attr |-> "_feature_shape_object_spatial_moment_3_0_1", stub |-> FALSE, moment |-> <<3, 0, 1>>,
     name |-> <<95,102,101,97,116,117,114,101,95,115,104,97,112,101,95,111,98,106,101,99,116,95,115,112,97,116,105,97,108,95,109,111,109,101,110,116,95,51,95,48,95,49>>],
    [attr |-> "_feature_shape_object_spatial_moment_3_0_2", stub |-> FALSE, moment |-> <<3, 0, 2>>,
     name |-> <<95,102,101,97,116,117,114,101,95,115,104,97,112,101,95,111,98,106,101,99,116,95,115,112,97,116,105,97,108,95,109,111,109,101,110,116,95,51,95,48,95,50>>],
    [attr |-> "_feature_shape_object_spatial_moment_3_0_3", stub |-> FALSE, moment |-> <<3, 0, 3>>,
     name |-> <<95,102,101,97,116,117,114,101,95,115,104,97,112,101,95,111,98,106,101,99,116,95,115,112,97,116,105,97,108,95,109,111,109,101,110,116,95,51,95,48,95,51>>],
    [attr |-> "_feature_shape_object_spatial_moment_3_1_0", stub |-> FALSE, moment |-> <<3, 1, 0>>,
     name |-> <<95,102,101,97,116,117,114,101,95,115,104,97,112,101,95,111,98,106,101,99,116,95,115,112,97,116,105,97,108,95,109,111,109,101,110,116,95,51,95,49,95,48>>],
    [attr |-> "_feature_shape_object_spatial_moment_3_1_1", stub |-> FALSE, moment |-> <<3, 1, 1>>,
     name |-> <<95,102,101,97,116,117,114,101,95,115,104,97,112,101,95,111,98,106,101,99,116,95,115,112,97,116,105,97,108,95,109,111,109,101,110,116,95,51,95,49,95,49>>],
    [attr |-> "_feature_shape_object_spatial_moment_3_1_2", stub |-> FALSE, moment |-> <<3, 1, 2>>,
     name |-> <<95,102,101,97,116,117,114,101,95,115,104,97,112,101,95,111,98,106,101,99,116,95,115,112,97,116,105,97,108,95,109,111,109,101,110,116,95,51,95,49,95,50>>],
    [attr |-> "_feature_shape_object_spatial_moment_3_1_3", stub |-> FALSE, moment |-> <<3, 1, 3>>,
     name |-> <<95,102,101,97,116,117,114,101,95,115,104,97,112,101,95,111,98,106,101,99,116,95,115,112,97,116,105,97,108,95,109,111,109,101,110,116,95,51,95,49,95,51>>],
    [attr |-> "_feature_shape_object_spatial_moment_3_2_0", stub |-> FALSE, moment |-> <<3, 2, 0>>,
     name |-> <<95,102,101,97,116,117,114,101,95,115,104,97,112,101,95,111,98,106,101,99,116,95,115,112,97,116,105,97,108,95,109,111,109,101,110,116,95,51,95,50,95,48>>],
    [attr |-> "_feature_shape_object_spatial_moment_3_2_1", stub |-> FALSE, moment |-> <<3, 2, 1>>,
     name |-> <<95,102,101,97,116,117,114,101,95,115,104,97,112,101,95,111,98,106,101,99,116,95,115,112,97,116,105,97,108,95,109,111,109,101,110,116,95,51,95,50,95,49>>],
    [attr |-> "_feature_shape_object_spatial_moment_3_2_2", stub |-> FALSE, moment |-> <<3, 2, 2>>,
     name |-> <<95,102,101,97,116,117,114,101,95,115,104,97,112,101,95,111,98,106,101,99,116,95,115,112,97,116,105,97,108,95,109,111,109,101,110,116,95,51,95,50,95,50>>],
    [attr |-> "_feature_shape_object_spatial_moment_3_2_3", stub |-> FALSE, moment |-> <<3, 2, 3>>,
     name |-> <<95,102,101,97,116,117,114,101,95,115,104,97,112,101,95,111,98,106,101,99,116,95,115,112,97,116,105,97,108,95,109,111,109,101,110,116,95,51,95,50,95,51>>],
    [attr |-> "_feature_shape_object_spatial_moment_3_3_0", stub |-> FALSE, moment |-> <<3, 3, 0>>,
     name |-> <<95,102,101,97,116,117,114,101,95,115,104,97,112,101,95,111,98,106,101,99,116,95,115,112,97,116,105,97,108,95,109,111,109,101,110,116,95,51,95,51,95,48>>],
    [attr |-> "_feature_shape_object_spatial_moment_3_3_1", stub |-> FALSE, moment |-> <<3, 3, 1>>,
     name |-> <<95,102,101,97,116,117,114,101,95,115,104,97,112,101,95,111,98,106,101,99,116,95,115,112,97,116,105,97,108,95,109,111,109,101,110,116,95,51,95,51,95,49>>],
    [attr |-> "_feature_shape_object_spatial_moment_3_3_2", stub |-> FALSE, moment |-> <<3, 3, 2>>,
     name |-> <<95,102,101,97,116,117,114,101,95,115,104,97,112,101,95,111,98,106,101,99,116,95,115,112,97,116,105,97,108,95,109,111,109,101,110,116,95,51,95,51,95,50>>],
    [attr |-> "_feature_shape_object_spatial_moment_3_3_3", stub |-> FALSE, moment |-> <<3, 3, 3>>,
     name |-> <<95,102,101,97,116,117,114,101,95,115,104,97,112,101,95,111,98,106,101,99,116,95,115,112,97,116,105,97,108,95,109,111,109,101,110,116,95,51,95,51,95,51>>],
    [attr |-> "_feature_shape_object_surface_area", stub |-> TRUE, moment |-> <<>>,
     name |-> <<95,102,101,97,116,117,114,101,95,115,104,97,112,101,95,111,98,106,101,99,116,95,115,117,114,102,97,99,101,95,97,114,101,97>>],
    [attr |-> "_feature_shape_object_volume", stub |-> TRUE, moment |-> <<>>,
     name |-> <<95,102,101,97,116,117,114,101,95,115,104,97,112,101,95,111,98,106,101,99,116,95,118,111,108,117,109,101>>],
    [attr |-> "_feature_shape_object_skeleton_endpoints", stub |-> TRUE, moment |-> <<>>,
     name |-> <<95,102,101,97,116,117,114,101,95,115,104,97,112,101,95,111,98,106,101,99,116,95,115,107,101,108,101,116,111,110,95,101,110,100,112,111,105,110,116,115>>],
    [attr |-> "_feature_shape_object_skeleton_branches", stub |-> TRUE, moment |-> <<>>,
     name |-> <<95,102,101,97,116,117,114,101,95,115,104,97,112,101,95,111,98,106,101,99,116,95,115,107,101,108,101,116,111,110,95,98,114,97,110,99,104,101,115>>],
    [attr |-> "_feature_shape_object_skeleton_length", stub |-> TRUE, moment |-> <<>>,
     name |-> <<95,102,101,97,116,117,114,101,95,115,104,97,112,101,95,111,98,106,101,99,116,95,115,107,101,108,101,116,111,110,95,108,101,110,103,116,104>>],
    [attr |-> "_feature_shape_object_skeleton_trunks", stub |-> TRUE, moment |-> <<>>,
     name |-> <<95,102,101,97,116,117,114,101,95,115,104,97,112,101,95,111,98,106,101,99,116,95,115,107,101,108,101,116,111,110,95,116,114,117,110,107,115>>],
    [attr |-> "_feature_texture_object_haralick_angular_second_moment", stub |-> TRUE, moment |-> <<>>,
     name |-> <<95,102,101,97,116,117,114,101,95,116,101,120,116,117,114,101,95,111,98,106,101,99,116,95,104,97,114,97,108,105,99,107,95,97,110,103,117,108,97,114,95,115,101,99,111,110,100,95,109,111,109,101,110,116>>],
    [attr |-> "_feature_texture_object_haralick_contrast", stub |-> TRUE, moment |-> <<>>,
     name |-> <<95,102,101,97,116,117,114,101,95,116,101,120,116,117,114,101,95,111,98,106,101,99,116,95,104,97,114,97,108,105,99,107,95,99,111,110,116,114,97,115,116>>],
    [attr |-> "_feature_texture_object_haralick_coorelation", stub |-> TRUE, moment |-> <<>>,
     name |-> <<95,102,101,97,116,117,114,101,95,116,101,120,116,117,114,101,95,111,98,106,101,99,116,95,104,97,114,97,108,105,99,107,95,99,111,111,114,101,108,97,116,105,111,110>>],
    [attr |-> "_feature_texture_object_haralick_sum_of_squares_variance", stub |-> TRUE, moment |-> <<>>,
     name |-> <<95,102,101,97,116,117,114,101,95,116,101,120,116,117,114,101,95,111,98,106,101,99,116,95,104,97,114,97,108,105,99,107,95,115,117,109,95,111,102,95,115,113,117,97,114,101,115,95,118,97,114,105,97,110,99,101>>],
    [attr |-> "_feature_texture_object_haralick_inverse_difference_moment", stub |-> TRUE, moment |-> <<>>,
     name |-> <<95,102,101,97,116,117,114,101,95,116,101,120,116,117,114,101,95,111,98,106,101,99,116,95,104,97,114,97,108,105,99,107,95,105,110,118,101,114,115,101,95,100,105,102,102,101,114,101,110,99,101,95,109,111,109,101,110,116>>],
    [attr |-> "_feature_texture_object_haralick_sum_average", stub |-> TRUE, moment |-> <<>>,
     name |-> <<95,102,101,97,116,117,114,101,95,116,101,120,116,117,114,101,95,111,98,106,101,99,116,95,104,97,114,97,108,105,99,107,95,115,117,109,95,97,118,101,114,97,103,101>>],
    [attr |-> "_feature_texture_object_haralick_sum_variance", stub |-> TRUE, moment |-> <<>>,
     name |-> <<95,102,101,97,116,117,114,101,95,116,101,120,116,117,114,101,95,111,98,106,101,99,116,95,104,97,114,97,108,105,99,107,95,115,117,109,95,118,97,114,105,97,110,99,101>>],
    [attr |-> "_feature_texture_object_haralick_sum_entropy", stub |-> TRUE, moment |-> <<>>,
     name |-> <<95,102,101,97,116,117,114,101,95,116,101,120,116,117,114,101,95,111,98,106,101,99,116,95,104,97,114,97,108,105,99,107,95,115,117,109,95,101,110,116,114,111,112,121>>],
    [attr |-> "_feature_texture_object_haralick_entropy", stub |-> TRUE, moment |-> <<>>,
     name |-> <<95,102,101,97,116,117,114,101,95,116,101,120,116,117,114,101,95,111,98,106,101,99,116,95,104,97,114,97,108,105,99,107,95,101,110,116,114,111,112,121>>],
    [attr |-> "_feature_texture_object_haralick_difference_variance", stub |-> TRUE, moment |-> <<>>,
     name |-> <<95,102,101,97,116,117,114,101,95,116,101,120,116,117,114,101,95,111,98,106,101,99,116,95,104,97,114,97,108,105,99,107,95,100,105,102,102,101,114,101,110,99,101,95,118,97,114,105,97,110,99,101>>],
    [attr |-> "_feature_texture_object_haralick_measure_of_correlation_0", stub |-> TRUE, moment |-> <<>>,
     name |-> <<95,102,101,97,116,117,114,101,95,116,101,120,116,117,114,101,95,111,98,106,101,99,116,95,104,97,114,97,108,105,99,107,95,109,101,97,115,117,114,101,95,111,102,95,99,111,114,114,101,108,97,116,105,111,110,95,48>>],
    [attr |-> "_feature_texture_object_haralick_measure_of_correlation_1", stub |-> TRUE, moment |-> <<>>,
     name |-> <<95,102,101,97,116,117,114,101,95,116,101,120,116,117,114,101,95,111,98,106,101,99,116,95,104,97,114,97,108,105,99,107,95,109,101,97,115,117,114,101,95,111,102,95,99,111,114,114,101,108,97,116,105,111,110,95,49>>],
    [attr |-> "_feature_texture_object_haralick_maximum_correlation_coefficient", stub |-> TRUE, moment |-> <<>>,
     name |-> <<95,102,101,97,116,117,114,101,95,116,101,120,116,117,114,101,95,111,98,106,101,99,116,95,104,97,114,97,108,105,99,107,95,109,97,120,105,109,117,109,95,99,111,114,114,101,108,97,116,105,111,110,95,99,111,101,102,102,105,99,105,101,110,116>>],
    [attr |-> "_members", stub |-> FALSE, moment |-> <<>>,
     name |-> <<95,109,101,109,98,101,114,115>>]
  >>

----------------------------------------------------------------------------
\* Python strings, as sequences of code points

\* s < t for Python sequences (str by code point, tuple by element): the
\* first difference decides, a proper prefix comes first.
RECURSIVE SeqLess(_, _)
SeqLess(s, t) ==
  IF t = <<>> THEN FALSE
  ELSE IF s = <<>> THEN TRUE
  ELSE IF Head(s) # Head(t) THEN Head(s) < Head(t)
  ELSE SeqLess(Tail(s), Tail(t))

\* str.startswith
startswith(s, prefix) ==
  /\ Len(prefix) <= Len(s)
  /\ SubSeq(s, 1, Len(prefix)) = prefix

\* str.replace(old, new): every occurrence of `old`, left to right, without overlap.
RECURSIVE replace(_, _, _)
replace(s, old, new) ==
  IF s = <<>> THEN <<>>
  ELSE IF startswith(s, old) THEN new \o replace(SubSeq(s, Len(old) + 1, Len(s)), old, new)
  ELSE <<Head(s)>> \o replace(Tail(s), old, new)

\* The list whose k-th element is the element of `s` of rank k.
Ranked(s, rank) == [k \in 1..Len(s) |-> s[CHOOSE i \in 1..Len(s) : rank[i] = k]]

\* The rank of each element of `s` in ascending, stable order: one more than
\* the number of elements less than it or equal to it and before it.
Ranks(s) ==
  [i \in 1..Len(s) |->
     Cardinality({j \in 1..Len(s) : SeqLess(s[j], s[i]) \/ (j < i /\ ~SeqLess(s[i], s[j]))}) + 1]

\* A sorted that leaves the list in the order it was given.
sorted_declared(s) == s

\* sorted(list).  (Appending the empty list makes TLC hold the ranks as a
\* computed list rather than recompute each on every use.)
sorted(s) == Ranked(s, Ranks(s) \o <<>>) \o <<>>

\* "_feature_"
FeaturePrefix == <<95, 102, 101, 97, 116, 117, 114, 101, 95>>

\* inspect.getmembers(self.__class__, is a property): the names of the
\* properties of the class, sorted by name.
getmembers == sorted([k \in 1..Len(Properties) |-> Properties[k].name])

\* Generator._members
_members == sorted(SelectSeq(getmembers, LAMBDA k : startswith(k, FeaturePrefix)))

\* Generator.columns
columns == [j \in 1..Len(_members) |-> replace(_members[j], FeaturePrefix, <<>>)] \o <<>>

\* The property a name resolves to (getattr on the class).
PropertyNamed(name) == CHOOSE p \in {Properties[k] : k \in 1..Len(Properties)} : p.name = name

\* _members read from its last name to its first.
Members_reversed ==
  [j \in 1..Len(_members) |-> PropertyNamed(_members[Len(_members) + 1 - j])] \o <<>>

\* The properties __next__ reads, in the order of _members.  (As for sorted,
\* appending the empty list makes TLC hold the list as computed.)
Members == [j \in 1..Len(_members) |-> PropertyNamed(_members[j])] \o <<>>

\* The names the cache decorator wraps: the keys the cache can hold.
DerivedQuantities ==
  {"area", "central_moments", "centroid", "convex_hull", "coordinates", "crop",
   "edge", "inertia_tensor", "inertia_tensor_eigenvalues", "local_centroid",
   "mask", "masked", "spatial_moments"}

CachedNames == DerivedQuantities \cup {"_feature_color_object_maximum_intensity"}

----------------------------------------------------------------------------
\* The Generator.  An engine g is the record of its fields (label, image,
\* multichannel, objects, object_index, object, volumetric, cache) and, beside
\* them, the record of what its cache did: current (the 0-based position of
\* g.object in g.objects), stamp (for each cache key, `current` when its value
\* was computed), invoked (per key, the runs of the wrapped computation since
\* `current` last changed), served (the <<key, stamp>> pairs the decorator
\* returned during the running call), requested (per key, the requests during
\* the running call) and exc (the exception propagating, "" when none).
\* Reading a cached property p(g) gives the engine after the read, whose
\* cache holds the value under the property's name; a wrapped function and a
\* property that is not cached give [g, value].

\* The element of a one-element set.  In Only({e(x) : x \in {v}}) the value v
\* is computed once and named x before e reads it, as a statement's result is.
Only(S) == CHOOSE x \in S : TRUE

Raise(g, e) == [g EXCEPT !.exc = e]

Ret(g, v) == [g |-> g, value |-> IF g.exc # "" THEN <<>> ELSE v]

\* a * b for arrays, or the ValueError of shapes that do not broadcast.
Product(g, a, b) ==
  IF g.exc # "" THEN Ret(g, <<>>)
  ELSE IF Broadcastable(a.shape, b.shape) THEN Ret(g, Multiply(a, b))
  ELSE Ret(Raise(g, "ValueError"), <<>>)

\* list[i] of Python: a negative index counts from the end.
InRange(list, i) == -Len(list) <= i /\ i < Len(list)

Item(list, i) == IF i >= 0 THEN list[i + 1] ELSE list[Len(list) + i + 1]

\* A decorator that never finds the name in the cache.
InCache_never(name, g) == FALSE

\* name in generator.cache
InCache(name, g) == name \in DOMAIN g.cache

\* cache(wrapped)(generator), for the wrapped function of name `name`;
\* `returned` is wrapped(generator), which is read only when the name is not
\* in the cache.
cached(name, g, returned) ==
  IF g.exc # "" THEN g
  ELSE IF InCache(name, g)
  THEN [g EXCEPT !.requested[name] = @ + 1,
                 !.served = @ \cup {<<name, g.stamp[name]>>}]
  ELSE Only({IF r.g.exc # "" THEN r.g
             ELSE [r.g EXCEPT !.requested[name] = @ + 1,
                              !.cache = @ @@ (name :> r.value),
                              !.stamp = @ @@ (name :> r.g.current),
                              !.invoked[name] = @ + 1,
                              !.served = @ \cup {<<name, r.g.current>>}]
             : r \in {returned}})

\* An area restricted to the current object: the number of mask pixels.
area_of_object(g) ==
  cached("area", g, Ret(g, numpy_sum(Positive(numpy_squeeze(Slice(g.label, g.object))))))

\* Generator.area
area(g) == cached("area", g, Ret(g, numpy_sum(g.label)))

coordinates(g) ==
  cached("coordinates", g,
    Only({Ret(g, [k \in 1..Len(indices) |->
                    [index \in 1..Len(g.label.shape) |->
                       indices[k][index] + g.object[index].start]])
          : indices \in {SelectSeq(RowMajor(g.image.shape),
                                   LAMBDA idx : g.image.at[idx] # 0)}}))

centroid(g) ==
  cached("centroid", g,
    Only({Ret(g1, [a \in 1..Len(g1.label.shape) |->
                     [num |-> SeqSum([k \in 1..Len(g1.cache["coordinates"]) |->
                                        g1.cache["coordinates"][k][a]]),
                      den |-> Len(g1.cache["coordinates"])]])
          : g1 \in {coordinates(g)}}))

crop(g) == cached("crop", g, Ret(g, Slice(g.image, g.object)))

mask(g) == cached("mask", g, Ret(g, Positive(numpy_squeeze(Slice(g.label, g.object)))))

convex_hull(g) ==
  cached("convex_hull", g,
    Only({Ret(g1, [fn |-> "skimage.morphology.convex_hull_image", of |-> g1.cache["mask"]])
          : g1 \in {mask(g)}}))

edge(g) ==
  cached("edge", g,
    Only({IF g2.exc # "" THEN Ret(g2, <<>>)
          ELSE Product(g2, g2.cache["crop"], find_boundaries(g2.cache["mask"]))
          : g2 \in {crop(g1) : g1 \in {mask(g)}}}))

\* A masked that thresholds the label itself instead of reading self.mask.
masked_inline(g) ==
  cached("masked", g,
    Product(g, Slice(g.image, g.object), Positive(numpy_squeeze(Slice(g.label, g.object)))))

\* Generator.masked
masked(g) ==
  cached("masked", g,
    Only({IF g1.exc # "" THEN Ret(g1, <<>>)
          ELSE Product(g1, Slice(g1.image, g1.object), g1.cache["mask"])
          : g1 \in {mask(g)}}))

\* A spatial_moments that stores the 2-D moment matrix in the last slice.
spatial_moments_last(g) ==
  cached("spatial_moments", g,
    Only({IF g1.exc # "" THEN Ret(g1, <<>>)
          ELSE IF OutOfRange(g1.cache["masked"]) THEN Ret(Raise(g1, "ValueError"), <<>>)
          ELSE Only({IF ~g1.volumetric
                     THEN Ret(g1, [i \in (0..3) \X (0..3) \X (0..3) |->
                                     IF i[1] = 3 THEN m[<<i[2], i[3]>>] ELSE 0])
                     ELSE Ret(g1, m)
                     : m \in {moments(img_as_ubyte(g1.cache["masked"]))}})
          : g1 \in {masked(g)}}))

\* Generator.spatial_moments
spatial_moments(g) ==
  cached("spatial_moments", g,
    Only({IF g1.exc # "" THEN Ret(g1, <<>>)
          ELSE IF OutOfRange(g1.cache["masked"]) THEN Ret(Raise(g1, "ValueError"), <<>>)
          ELSE Only({IF ~g1.volumetric
                     THEN Ret(g1, [i \in (0..3) \X (0..3) \X (0..3) |->
                                     IF i[1] = 0 THEN m[<<i[2], i[3]>>] ELSE 0])
                     ELSE Ret(g1, m)
                     : m \in {moments(img_as_ubyte(g1.cache["masked"]))}})
          : g1 \in {masked(g)}}))

\* spatial_moments[tuple(numpy.eye(ndim))] / spatial_moments[(0,) * ndim] on the
\* 4x4x4 tensor of a 2-D label: the index arrays pick, for axis k, the row
\* spatial_moments[e_k, :] (e_k the k-th unit index), and the divisor is the row
\* spatial_moments[0, 0, :]; the quotient is taken element by element, so the
\* result is an array of shape (ndim, 4).
local_centroid(g) ==
  cached("local_centroid", g,
    Only({IF g1.exc # "" THEN Ret(g1, <<>>)
          ELSE Ret(g1, [shape |-> <<Len(g1.label.shape), 4>>,
                        at |-> [i \in Indices(<<Len(g1.label.shape), 4>>) |->
                                  [num |-> g1.cache["spatial_moments"][
                                             <<IF i[1] = 0 THEN 1 ELSE 0,
                                               IF i[1] = 1 THEN 1 ELSE 0, i[2]>>],
                                   den |-> g1.cache["spatial_moments"][<<0, 0, i[2]>>]]]])
          : g1 \in {spatial_moments(g)}}))

central_moments(g) ==
  cached("central_moments", g,
    Only({Ret(g1, [fn |-> "skimage.measure.moments_central",
                   of |-> <<Flat(g1.label), g1.cache["local_centroid"]>>])
          : g1 \in {local_centroid(g)}}))

inertia_tensor(g) ==
  cached("inertia_tensor", g,
    Only({Ret(g1, [fn |-> "skimage.measure.inertia_tensor",
                   of |-> <<Flat(g1.image), g1.cache["central_moments"]>>])
          : g1 \in {central_moments(g)}}))

inertia_tensor_eigenvalues(g) ==
  cached("inertia_tensor_eigenvalues", g,
    Only({Ret(g1, [fn |-> "skimage.measure.inertia_tensor_eigvals",
                   of |-> <<Flat(g1.label), g1.cache["inertia_tensor"]>>])
          : g1 \in {inertia_tensor(g)}}))

_feature_color_object_maximum_intensity(g) ==
  cached("_feature_color_object_maximum_intensity", g,
    Only({Ret(g1, numpy_max(g1.cache["masked"])) : g1 \in {masked(g)}}))

\* getattr(generator, name) for a derived quantity.
Derived(name, g) ==
  CASE name = "area" -> area(g)
    [] name = "central_moments" -> central_moments(g)
    [] name = "centroid" -> centroid(g)
    [] name = "convex_hull" -> convex_hull(g)
    [] name = "coordinates" -> coordinates(g)
    [] name = "crop" -> crop(g)
    [] name = "edge" -> edge(g)
    [] name = "inertia_tensor" -> inertia_tensor(g)
    [] name = "inertia_tensor_eigenvalues" -> inertia_tensor_eigenvalues(g)
    [] name = "local_centroid" -> local_centroid(g)
    [] name = "mask" -> mask(g)
    [] name = "masked" -> masked(g)
    [] name = "spatial_moments" -> spatial_moments(g)

----------------------------------------------------------------------------
\* The feature properties

\* The value of a library routine the model does not compute: its name and argument.
Opaque(fn, of) == [fn |-> fn, of |-> of]

numpy_median(a) == Opaque("numpy.median", Flat(a))

numpy_quantile_1(a) == Opaque("numpy.quantile 0.25", Flat(a))

numpy_quantile_3(a) == Opaque("numpy.quantile 0.75", Flat(a))

numpy_std(a) == Opaque("numpy.std", Flat(a))

median_absolute_deviation(a) == Opaque("scipy.stats.median_absolute_deviation", Flat(a))

_feature_color_object_integrated_intensity(g) ==
  Only({Ret(g1, numpy_sum(g1.cache["masked"])) : g1 \in {masked(g)}})

\* xs, _ = numpy.where(self.image == maximum); xs[0]  (axis = 1), and ys[0] (axis = 2)
MaximumIntensityPosition(g, axis) ==
  Only({IF g1.exc # "" THEN Ret(g1, <<>>)
        ELSE IF Len(g1.image.shape) # 2 THEN Ret(Raise(g1, "ValueError"), <<>>)
        ELSE Only({IF matches = <<>> THEN Ret(Raise(g1, "IndexError"), <<>>)
                   ELSE Ret(g1, matches[1][axis])
                   : matches \in {SelectSeq(RowMajor(g1.image.shape),
                                            LAMBDA idx :
                                              g1.image.at[idx] =
                                                g1.cache["_feature_color_object_maximum_intensity"])}})
        : g1 \in {_feature_color_object_maximum_intensity(g)}})

_feature_color_object_maximum_intensity_x(g) == MaximumIntensityPosition(g, 1)

_feature_color_object_maximum_intensity_y(g) == MaximumIntensityPosition(g, 2)

_feature_color_object_mean_intensity(g) ==
  Only({Ret(g1, numpy_mean(g1.cache["masked"])) : g1 \in {masked(g)}})

_feature_metadata_object_index(g) == Ret(g, g.object_index)

_feature_shape_image_area(g) ==
  Ret(g, Size(IF g.multichannel THEN SubSeq(g.image.shape, 1, Len(g.image.shape) - 1)
             ELSE g.image.shape))

_feature_shape_object_equivalent_diameter(g) ==
  Only({Ret(g1, Opaque("(2 * ndim * area / math.pi) ** (1 / ndim)",
                       <<Len(g1.label.shape), g1.cache["area"]>>))
        : g1 \in {area(g)}})

_feature_shape_object_extent(g) ==
  Only({Ret(g1, [num |-> g1.cache["area"], den |-> Size(g1.label.shape)]) : g1 \in {area(g)}})

\* The statistics the intensity features take of an array.
Statistic(fn, a) ==
  CASE fn = "numpy.sum" -> numpy_sum(a)
    [] fn = "numpy.max" -> numpy_max(a)
    [] fn = "numpy.mean" -> numpy_mean(a)
    [] fn = "numpy.median" -> numpy_median(a)
    [] fn = "numpy.min" -> numpy_min(a)
    [] fn = "numpy.quantile 0.25" -> numpy_quantile_1(a)
    [] fn = "numpy.quantile 0.75" -> numpy_quantile_3(a)
    [] fn = "numpy.std" -> numpy_std(a)
    [] fn = "scipy.stats.median_absolute_deviation" -> median_absolute_deviation(a)

\* fn(self.edge)
OfEdge(g, fn) == Only({Ret(g1, Statistic(fn, g1.cache["edge"])) : g1 \in {edge(g)}})

\* fn(self.masked)
OfMasked(g, fn) == Only({Ret(g1, Statistic(fn, g1.cache["masked"])) : g1 \in {masked(g)}})

\* getattr(self, member) for the property p.
Feature(p, g) ==
  IF g.exc # "" THEN Ret(g, <<>>)
  ELSE IF p.stub THEN Ret(g, 0)
  ELSE IF p.moment # <<>>
  THEN Only({Ret(g1, g1.cache["spatial_moments"][p.moment]) : g1 \in {spatial_moments(g)}})
  ELSE
  CASE p.attr = "_feature_color_image_integrated_intensity" -> Ret(g, numpy_sum(g.image))
    [] p.attr = "_feature_color_image_maximum_intensity" -> Ret(g, numpy_max(g.image))
    [] p.attr = "_feature_color_image_mean_intensity" -> Ret(g, numpy_mean(g.image))
    [] p.attr = "_feature_color_image_median_absolute_deviation_intensity" ->
         Ret(g, median_absolute_deviation(g.image))
    [] p.attr = "_feature_color_image_median_intensity" -> Ret(g, numpy_median(g.image))
    [] p.attr = "_feature_color_image_minimum_intensity" -> Ret(g, numpy_min(g.image))
    [] p.attr = "_feature_color_image_quantile_1_intensity" -> Ret(g, numpy_quantile_1(g.image))
    [] p.attr = "_feature_color_image_quantile_3_intensity" -> Ret(g, numpy_quantile_3(g.image))
    [] p.attr = "_feature_color_image_standard_deviation_intensity" -> Ret(g, numpy_std(g.image))
    [] p.attr = "_feature_color_object_edge_integrated_intensity" -> OfEdge(g, "numpy.sum")
    [] p.attr = "_feature_color_object_edge_maximum_intensity" -> OfEdge(g, "numpy.max")
    [] p.attr = "_feature_color_object_edge_mean_intensity" -> OfEdge(g, "numpy.mean")
    [] p.attr = "_feature_color_object_edge_median_intensity" -> OfEdge(g, "numpy.median")
    [] p.attr = "_feature_color_object_edge_minimum_intensity" -> OfEdge(g, "numpy.min")
    [] p.attr = "_feature_color_object_edge_quantile_1_intensity" ->
         OfEdge(g, "numpy.quantile 0.25")
    [] p.attr = "_feature_color_object_edge_quantile_3_intensity" ->
         OfEdge(g, "numpy.quantile 0.75")
    [] p.attr = "_feature_color_object_edge_standard_deviation_intensity" ->
         OfEdge(g, "numpy.std")
    [] p.attr = "_feature_color_object_integrated_intensity" ->
         _feature_color_object_integrated_intensity(g)
    [] p.attr = "_feature_color_object_maximum_intensity" ->
         Only({Ret(g1, g1.cache["_feature_color_object_maximum_intensity"])
               : g1 \in {_feature_color_object_maximum_intensity(g)}})
    [] p.attr = "_feature_color_object_maximum_intensity_x" ->
         _feature_color_object_maximum_intensity_x(g)
    [] p.attr = "_feature_color_object_maximum_intensity_y" ->
         _feature_color_object_maximum_intensity_y(g)
    [] p.attr = "_feature_color_object_mean_intensity" -> _feature_color_object_mean_intensity(g)
    [] p.attr = "_feature_color_object_median_absolute_deviation_intensity" ->
         OfMasked(g, "scipy.stats.median_absolute_deviation")
    [] p.attr = "_feature_color_object_median_intensity" -> OfMasked(g, "numpy.median")
    [] p.attr = "_feature_color_object_minimum_intensity" -> OfMasked(g, "numpy.min")
    [] p.attr = "_feature_color_object_quantile_1_intensity" ->
         OfMasked(g, "numpy.quantile 0.25")
    [] p.attr = "_feature_color_object_quantile_3_intensity" ->
         OfMasked(g, "numpy.quantile 0.75")
    [] p.attr = "_feature_color_object_standard_deviation_intensity" -> OfMasked(g, "numpy.std")
    [] p.attr = "_feature_metadata_object_index" -> _feature_metadata_object_index(g)
    [] p.attr = "_feature_shape_image_area" -> _feature_shape_image_area(g)
    [] p.attr = "_feature_shape_object_centroid_x" ->
         Only({Ret(g1, g1.cache["centroid"][1]) : g1 \in {centroid(g)}})
    [] p.attr = "_feature_shape_object_centroid_y" ->
         Only({Ret(g1, g1.cache["centroid"][2]) : g1 \in {centroid(g)}})
    [] p.attr = "_feature_shape_object_equivalent_diameter" ->
         _feature_shape_object_equivalent_diameter(g)
    [] p.attr = "_feature_shape_object_euler_number" ->
         Ret(g, Opaque("skimage.measure.euler_number", Flat(g.label)))
    [] p.attr = "_feature_shape_object_extent" -> _feature_shape_object_extent(g)

\* [getattr(self, member) for member in members[lo..hi]]: the values in the
\* order of `members`, up to the first property that raises.  (The list is
\* evaluated left half first, then the right half on the engine the left
\* half leaves.)
RECURSIVE Comprehension(_, _, _, _)
Comprehension(members, lo, hi, g) ==
  IF lo > hi \/ g.exc # "" THEN [g |-> g, value |-> <<>>]
  ELSE IF lo = hi
  THEN Only({[g |-> r.g, value |-> IF r.g.exc # "" THEN <<>> ELSE <<r.value>>]
             : r \in {Feature(members[lo], g)}})
  ELSE Only({Only({[g |-> right.g, value |-> left.value \o right.value]
                   : right \in {Comprehension(members, (lo + hi) \div 2 + 1, hi, left.g)}})
             : left \in {Comprehension(members, lo, (lo + hi) \div 2, g)}})

----------------------------------------------------------------------------
\* The state: the arguments and fields of one engine, what its cache did, and
\* what the caller saw.

VARIABLES
  phase,         \* "new": __init__ not yet run; "ready": an engine exists; "failed": __init__ raised
  label,         \* self.label (the label argument)
  image,         \* self.image (before __init__, the image argument)
  multichannel,  \* self.multichannel
  objects,       \* self.objects
  object_index,  \* self.object_index
  object,        \* self.object
  volumetric,    \* self.volumetric
  cache,         \* self.cache
  current,       \* position of self.object in self.objects (0-based)
  stamp,         \* per cache key: `current` when the value was computed
  invoked,       \* per cache key: runs of the wrapped computation since `current` changed
  served,        \* <<key, stamp>> pairs the decorator returned during the last call
  requested,     \* per cache key: requests during the last call
  result,        \* the last call and what it returned or raised: [call, kind, value]
  yielded,       \* rows returned by __next__ so far
  raised,        \* calls of __next__ that raised while evaluating a row, so far
  requests       \* derived quantities read directly so far

vars ==
  <<phase, label, image, multichannel, objects, object_index, object, volumetric, cache,
    current, stamp, invoked, served, requested, result, yielded, raised, requests>>

fields == <<label, image, multichannel, objects, object_index, object, volumetric>>

NoCount == [name \in CachedNames |-> 0]

\* The label images: every value up to the largest one labels some pixel.
LabelImages ==
  {[dtype |-> "int64", shape |-> Shape, at |-> f] :
     f \in {h \in [Indices(Shape) -> 0..MaxLabel] :
              \A idx \in Indices(Shape) : \A v \in 1..h[idx] : \E q \in Indices(Shape) : h[q] = v}}

\* The intensity images: floats k / MaxIntensity.
IntensityImages ==
  {[dtype |-> "float64", shape |-> Shape, at |-> f] : f \in [Indices(Shape) -> 0..MaxIntensity]}

\* Float intensity images that were not scaled to [0, 1]: some pixel holds
\* (MaxIntensity + 1) / MaxIntensity, which is more than 1.
UnscaledImages ==
  {[dtype |-> "float64", shape |-> Shape, at |-> f] :
     f \in {h \in [Indices(Shape) -> 0..(MaxIntensity + 1)] :
              \E idx \in Indices(Shape) : h[idx] > MaxIntensity}}

\* The engine as the properties see it, at the start of a call.
Self ==
  [label |-> label, image |-> image, multichannel |-> multichannel, objects |-> objects,
   object_index |-> object_index, object |-> object, volumetric |-> volumetric,
   cache |-> cache, current |-> current, stamp |-> stamp, invoked |-> invoked,
   served |-> {}, requested |-> NoCount, exc |-> ""]

\* What a call leaves of the cache and of its record.
Leaves(g) ==
  /\ cache' = g.cache
  /\ stamp' = g.stamp
  /\ invoked' = g.invoked
  /\ served' = g.served
  /\ requested' = g.requested

Returned(call, kind, value) == [call |-> call, kind |-> kind, value |-> value]

\* Before Generator(label, image), for an image among `images`.
Start(images) ==
  /\ phase = "new"
  /\ label \in LabelImages
  /\ image \in images
  /\ multichannel = FALSE
  /\ objects = <<>>
  /\ object_index = 0
  /\ object = <<>>
  /\ volumetric = FALSE
  /\ cache = <<>>
  /\ current = 0
  /\ stamp = <<>>
  /\ invoked = NoCount
  /\ served = {}
  /\ requested = NoCount
  /\ result = Returned("", "none", <<>>)
  /\ yielded = 0
  /\ raised = 0
  /\ requests = 0

Init == Start(IntensityImages)

\* A constructor that does not read self.objects[self.object_index - 1].
__init___unchecked ==
  /\ phase = "new"
  /\ cache' = <<>>
  /\ image' = img_as_float32(image)
  /\ label' = label
  /\ multichannel' = SeqLess(label.shape, image.shape)
  /\ objects' = find_objects(label)
  /\ object_index' = 1
  /\ object' = object
  /\ phase' = "ready"
  /\ result' = Returned("__init__", "Generator", <<>>)
  /\ volumetric' = FALSE
  /\ UNCHANGED <<current, stamp, invoked, served, requested, yielded, raised, requests>>

\* A constructor whose cursor starts on the background label 0.
__init___from_zero ==
  /\ phase = "new"
  /\ cache' = <<>>
  /\ image' = img_as_float32(image)
  /\ label' = label
  /\ multichannel' = SeqLess(label.shape, image.shape)
  /\ objects' = find_objects(label)
  /\ object_index' = 0
  /\ IF InRange(objects', object_index' - 1)
     THEN /\ object' = Item(objects', object_index' - 1)
          /\ phase' = "ready"
          /\ result' = Returned("__init__", "Generator", <<>>)
     ELSE /\ object' = object
          /\ phase' = "failed"
          /\ result' = Returned("__init__", "raise", "IndexError")
  /\ volumetric' = FALSE
  /\ UNCHANGED <<current, stamp, invoked, served, requested, yielded, raised, requests>>

\* Generator.__init__(label, image)
__init__ ==
  /\ phase = "new"
  /\ cache' = <<>>
  /\ image' = img_as_float32(image)
  /\ label' = label
  /\ multichannel' = SeqLess(label.shape, image.shape)
  /\ objects' = find_objects(label)
  /\ object_index' = 1
  /\ IF InRange(objects', object_index' - 1)
     THEN /\ object' = Item(objects', object_index' - 1)
          /\ phase' = "ready"
          /\ result' = Returned("__init__", "Generator", <<>>)
     ELSE /\ object' = object
          /\ phase' = "failed"
          /\ result' = Returned("__init__", "raise", "IndexError")
  /\ volumetric' = FALSE
  /\ UNCHANGED <<current, stamp, invoked, served, requested, yielded, raised, requests>>

\* An __iter__ that rewinds the cursor to the first object.
__iter___restart ==
  /\ phase = "ready"
  /\ result' = Returned("__iter__", "self", <<>>)
  /\ served' = {}
  /\ requested' = NoCount
  /\ object_index' = 1
  /\ UNCHANGED <<phase, label, image, multichannel, objects, object, volumetric,
                 cache, current, stamp, invoked, yielded, raised, requests>>

\* Generator.__iter__
__iter__ ==
  /\ phase = "ready"
  /\ result' = Returned("__iter__", "self", <<>>)
  /\ served' = {}
  /\ requested' = NoCount
  /\ UNCHANGED <<phase, fields, cache, current, stamp, invoked, yielded, raised, requests>>

\* An advance that leaves self.object_index as it was.
Advance_stuck(g) ==
  [g EXCEPT !.object = Item(g.objects, g.object_index - 1),
            !.current = g.object_index - 1,
            !.invoked = IF g.object_index - 1 = g.current THEN @ ELSE NoCount]

\* An advance that always takes the first slice.
Advance_first(g) ==
  [g EXCEPT !.object = Item(g.objects, 0),
            !.object_index = @ + 1,
            !.current = g.object_index - 1,
            !.invoked = IF g.object_index - 1 = g.current THEN @ ELSE NoCount]

\* self.object = self.objects[self.object_index - 1]; self.object_index += 1
Advance(g) ==
  [g EXCEPT !.object = Item(g.objects, g.object_index - 1),
            !.object_index = @ + 1,
            !.current = g.object_index - 1,
            !.invoked = IF g.object_index - 1 = g.current THEN @ ELSE NoCount]

\* Generator.__next__
__next__ ==
  /\ phase = "ready"
  /\ IF InRange(objects, object_index - 1)
     THEN \E g \in {Advance(Self)} :
          \E r \in {Comprehension(Members, 1, Len(Members), g)} :
            /\ object' = r.g.object
            /\ object_index' = r.g.object_index
            /\ current' = r.g.current
            /\ Leaves(r.g)
            /\ IF r.g.exc = ""
               THEN /\ result' = Returned("__next__", "row", r.value)
                    /\ yielded' = yielded + 1
                    /\ raised' = raised
               ELSE /\ result' = Returned("__next__", "raise", r.g.exc)
                    /\ yielded' = yielded
                    /\ raised' = raised + 1
     ELSE /\ result' = Returned("__next__", "raise", "StopIteration")
          /\ served' = {}
          /\ requested' = NoCount
          /\ UNCHANGED <<object, object_index, current, cache, stamp, invoked, yielded, raised>>
  /\ UNCHANGED <<phase, label, image, multichannel, objects, volumetric, requests>>

\* Reading one derived quantity of the engine, such as generator.masked
Request(name) ==
  /\ phase = "ready"
  /\ requests < MaxRequests
  /\ \E g \in {Derived(name, Self)} :
       /\ Leaves(g)
       /\ result' = IF g.exc = "" THEN Returned("Request", "quantity", name)
                    ELSE Returned("Request", "raise", g.exc)
  /\ requests' = requests + 1
  /\ UNCHANGED <<phase, fields, current, yielded, raised>>

Next ==
  \/ __init__
  \/ __iter__
  \/ __next__
  \/ \E name \in DerivedQuantities : Request(name)

Spec == Init /\ [][Next]_vars

\* Iteration alone (for row in generator), over images that were not scaled.
InitUnscaled == Start(UnscaledImages)

NextIteration ==
  \/ __init__
  \/ __iter__
  \/ __next__

SpecUnscaled == InitUnscaled /\ [][NextIteration]_vars

----------------------------------------------------------------------------
\* The claims

\* N: the number of distinct positive labels of the label image.
N == Cardinality({label.at[idx] : idx \in Indices(label.shape)} \ {0})

\* The last call was a next() that returned a row.
RowReturned == result.call = "__next__" /\ result.kind = "row"

\* The last call was a next() that signalled the end of the sequence.
Stopped == result = Returned("__next__", "raise", "StopIteration")

\* The position in a row of the feature of the given property name.
PositionOf(attr) == CHOOSE j \in 1..Len(Members) : Members[j].attr = attr

\* C1: an engine over a label image with N positive labels answers next() with
\* a row while it has yielded fewer than N rows, and with the end of the
\* sequence (StopIteration) on every next() from then on, never with another
\* row: exactly N rows, the (N+1)-th call and all later ones end the sequence.
C1_YieldsNRowsThenStops ==
  [][result'.call = "__next__" =>
       IF yielded < N
       THEN result'.kind = "row" /\ yielded' = yielded + 1
       ELSE result' = Returned("__next__", "raise", "StopIteration") /\ yielded' = yielded]_vars

\* Two objects, both rows yielded, and the third next() ended the sequence.
C1_Witness == N = 2 /\ yielded = 2 /\ Stopped

\* C2: no cache entry computed while one object was current is returned while
\* another object is current: every value the decorator returned during the
\* last call was computed for the object that is current.
C2_NoStaleValueServed == \A e \in served : e[2] = current

\* C3: while one object is current the computation behind a derived quantity
\* runs at most once, every quantity requested is stored, and a stored
\* quantity keeps its value and is not computed again by later calls, however
\* many features read it.
C3_ComputedAtMostOncePerObject ==
  /\ [](\A name \in CachedNames :
          /\ invoked[name] <= 1
          /\ (requested[name] > 0 /\ result.kind # "raise" => name \in DOMAIN cache))
  /\ [][current' = current =>
          \A name \in DOMAIN cache :
            /\ name \in DOMAIN cache'
            /\ cache'[name] = cache[name]
            /\ invoked'[name] = invoked[name]]_vars

\* A row whose features read self.masked three times or more, computed once.
C3_Witness == RowReturned /\ requested["masked"] >= 3 /\ invoked["masked"] = 1

\* C4: the k-th row holds k under _feature_metadata_object_index.
C4_ObjectIndexIsRowNumber ==
  RowReturned => result.value[PositionOf("_feature_metadata_object_index")] = yielded

ColumnFeatures ==
  [j \in 1..Len(columns) |-> PropertyNamed(FeaturePrefix \o columns[j])] \o <<>>

\* C6: a row has the length of columns, and its position j holds the value of
\* the feature whose display name is columns[j], for every object of every
\* image.
C6_RowAlignedWithColumns ==
  RowReturned =>
    /\ Len(result.value) = Len(columns)
    /\ \A j \in 1..Len(columns) : result.value[j] = Feature(ColumnFeatures[j], Self).value

\* The second row of an image of two objects, as long as columns.
C6_Witness == RowReturned /\ yielded = 2 /\ Len(result.value) = Len(columns)

\* The feature names are those of the properties whose name starts with
\* "_feature_", each once, in strictly ascending order.
MembersAscending ==
  /\ {_members[j] : j \in 1..Len(_members)} =
       {Properties[k].name : k \in {i \in 1..Len(Properties) :
                                      startswith(Properties[i].name, FeaturePrefix)}}
  /\ \A j \in 1..(Len(_members) - 1) : SeqLess(_members[j], _members[j + 1])

\* The display names are the feature names without the prefix, in strictly
\* ascending order (hence pairwise distinct).
ColumnsAscending ==
  /\ Len(columns) = Len(_members)
  /\ \A j \in 1..Len(columns) : FeaturePrefix \o columns[j] = _members[j]
  /\ \A j \in 1..(Len(columns) - 1) : SeqLess(columns[j], columns[j + 1])

\* C7: the feature names are enumerated in strictly ascending codepoint order
\* without duplicates, a row holds the features' values in that order, and
\* the display names of columns keep the order and are pairwise distinct.
C7_AscendingNames ==
  /\ MembersAscending
  /\ ColumnsAscending
  /\ \A j \in 1..Len(Members) : Members[j].name = _members[j]
  /\ (RowReturned =>
        /\ Len(result.value) = Len(_members)
        /\ \A j \in 1..Len(Members) : result.value[j] = Feature(Members[j], Self).value)

\* The first row of an image of one object, one value for each feature name.
C7_Witness == RowReturned /\ N = 1 /\ yielded = 1 /\ Len(result.value) = Len(_members)

\* The engine with nothing cached, on the slice of the k-th object.
Fresh(k) ==
  [Self EXCEPT !.cache = <<>>, !.stamp = <<>>, !.object = Item(objects, k - 1),
               !.current = k - 1]

\* C8: the object intensity features of the k-th row (integrated, mean and
\* maximum intensity) are those of crop * mask on the k-th object's own slice,
\* whatever objects the engine evaluated before.
C8_IntensityOfOwnSlice ==
  RowReturned =>
    \A attr \in {"_feature_color_object_integrated_intensity",
                 "_feature_color_object_mean_intensity",
                 "_feature_color_object_maximum_intensity"} :
      result.value[PositionOf(attr)] = Feature(Members[PositionOf(attr)], Fresh(yielded)).value

\* C9: over a label image without positive labels the construction fails:
\* there is never an engine, __init__ raised, and no call of next() (nor any
\* other call on an engine) is answered.
C9_NoEngineWithoutObjects ==
  N = 0 =>
    /\ phase # "ready"
    /\ result.call \in {"", "__init__"}
    /\ yielded = 0
    /\ (phase = "failed" => result = Returned("__init__", "raise", "IndexError"))

\* The construction over a label image of zeros has failed.
C9_Witness == N = 0 /\ phase = "failed" /\ result.kind = "raise"

\* C10: after construction the engine is ready at its first object when N >= 1,
\* and when N = 0 an engine exists whose next() signals the end of the
\* sequence, not an error.
C10_ExhaustedWhenNoObjects ==
  phase # "new" =>
    IF N >= 1
    THEN /\ phase = "ready"
         /\ (yielded = 0 => object_index = 1 /\ object = Item(objects, 0) /\ ~Stopped)
    ELSE /\ phase = "ready"
         /\ (result.call = "__next__" => Stopped)

\* The quotients of centroid and local_centroid the engine holds or returned.
Quotients ==
  (IF RowReturned
   THEN {result.value[PositionOf(attr)] :
           attr \in {"_feature_shape_object_centroid_x", "_feature_shape_object_centroid_y"}}
   ELSE {})
  \cup (IF "centroid" \in DOMAIN cache
        THEN {cache["centroid"][a] : a \in 1..Len(cache["centroid"])}
        ELSE {})
  \cup (IF "local_centroid" \in DOMAIN cache
        THEN {cache["local_centroid"].at[<<k, 0>>] : k \in 0..(Len(label.shape) - 1)}
        ELSE {})

\* C11: the engine never divides by the zero coordinate count or zeroth moment
\* of a degenerate object: no centroid or local centroid it computed, and no
\* centroid feature of a row it returned, is a quotient with divisor 0.
C11_DegenerateObjectDetected == \A q \in Quotients : q.den # 0

\* C13: __iter__ returns the engine itself and leaves its cursor, its current
\* slice and its cache as they were, so the next() that follows it returns a
\* row only while fewer than N rows were yielded (the remaining rows), and
\* ends the sequence on an engine that already yielded its N rows.
C13_IterDoesNotRestart ==
  [][/\ result'.call = "__iter__" =>
          /\ result' = Returned("__iter__", "self", <<>>)
          /\ UNCHANGED <<fields, cache, yielded>>
     /\ (result.call = "__iter__" /\ result'.call = "__next__") =>
          IF yielded < N
          THEN result'.kind = "row" /\ yielded' = yielded + 1
          ELSE Stopped' /\ yielded' = yielded]_vars

\* iter() was called on an engine of two objects that had yielded one row.
C13_Witness ==
  /\ result.call = "__iter__"
  /\ N = 2
  /\ yielded = 1
  /\ object_index = 2

\* The 2-D raw moments of the cached masked crop itself, in units of
\* 1 / MaxIntensity (the pixel k of the model stands for k / MaxIntensity).
MomentsOfMasked == moments(cache["masked"])

\* The 2-D raw moments of the cached masked crop converted to 8-bit.
MomentsOfUbyte == moments(img_as_ubyte(cache["masked"]))

\* C14 as stated: slice [0] of spatial_moments is the 2-D raw-moment matrix of
\* masked.
C14_SliceZeroIsMomentsOfMasked ==
  "spatial_moments" \in DOMAIN cache =>
    \A b \in 0..3, c \in 0..3 :
      MaxIntensity * cache["spatial_moments"][<<0, b, c>>] = MomentsOfMasked[<<b, c>>]

\* C14: for a 2-D object spatial_moments is a 4x4x4 tensor whose slice [0] is
\* the 2-D raw-moment matrix M of masked converted to 8-bit and whose
\* slices [1], [2] and [3] are zero, and in a returned row the feature
\* spatial_moment_a_b_c is 0 when a >= 1 and M[b][c] when a = 0.
C14_EmbeddedInFirstSlice ==
  ("spatial_moments" \in DOMAIN cache /\ ~volumetric) =>
    /\ DOMAIN cache["spatial_moments"] = (0..3) \X (0..3) \X (0..3)
    /\ \A i \in (0..3) \X (0..3) \X (0..3) :
         cache["spatial_moments"][i] = IF i[1] = 0 THEN MomentsOfUbyte[<<i[2], i[3]>>] ELSE 0
    /\ RowReturned =>
         \A j \in 1..Len(Members) :
           Members[j].moment # <<>> =>
             result.value[j] = IF Members[j].moment[1] = 0
                               THEN MomentsOfUbyte[<<Members[j].moment[2], Members[j].moment[3]>>]
                               ELSE 0

\* A row was returned for an object with a nonzero zeroth moment.
C14_Witness ==
  /\ RowReturned
  /\ result.value[PositionOf("_feature_shape_object_spatial_moment_0_0_0")] > 0
  /\ result.value[PositionOf("_feature_shape_object_spatial_moment_1_0_0")] = 0

\* C15: local_centroid holds exactly one scalar per spatial axis, and the
\* scalar of axis k is the first-order raw moment along that axis divided by
\* the zeroth-order moment.
C15_OneScalarPerAxis ==
  ("local_centroid" \in DOMAIN cache /\ ~volumetric) =>
    /\ cache["local_centroid"].shape = <<Len(label.shape)>>
    /\ \A k \in 0..(Len(label.shape) - 1) :
         cache["local_centroid"].at[<<k>>] =
           [num |-> cache["spatial_moments"][<<0, IF k = 0 THEN 1 ELSE 0, IF k = 1 THEN 1 ELSE 0>>],
            den |-> cache["spatial_moments"][<<0, 0, 0>>]]

\* C16: every row of coordinates computed for the current object is an index
\* inside the current slice: on every axis a the coordinate c satisfies
\* slice[a].start <= c < slice[a].stop.  (Only coordinates computed for the
\* current object are looked at, not those served from an earlier object.)
C16_CoordinatesInsideSlice ==
  ("coordinates" \in DOMAIN cache /\ stamp["coordinates"] = current) =>
    \A k \in 1..Len(cache["coordinates"]) :
      \A a \in 1..Len(label.shape) :
        /\ object[a].start <= cache["coordinates"][k][a]
        /\ cache["coordinates"][k][a] < object[a].stop

\* C17: the mask the engine holds for the current object is the label image
\* restricted to the current slice, squeezed and thresholded > 0, so it is true
\* at exactly the positions of the current slice whose label is positive,
\* whichever label that is.
C17_MaskIsPositiveLabelOfSlice ==
  "mask" \in DOMAIN cache =>
    cache["mask"] = Positive(numpy_squeeze(Slice(label, object)))

\* C18: area is the sum of all values of the full label image, whatever the
\* current object is, and the features computed from it (equivalent diameter
\* and extent) are those of that sum in every row of the engine.
C18_AreaIsSumOfLabelImage ==
  /\ "area" \in DOMAIN cache => cache["area"] = numpy_sum(label)
  /\ RowReturned =>
       /\ result.value[PositionOf("_feature_shape_object_equivalent_diameter")] =
            Opaque("(2 * ndim * area / math.pi) ** (1 / ndim)",
                   <<Len(label.shape), numpy_sum(label)>>)
       /\ result.value[PositionOf("_feature_shape_object_extent")] =
            [num |-> numpy_sum(label), den |-> Size(label.shape)]

\* The second row of an engine of two objects of different sizes was returned.
C18_Witness ==
  /\ RowReturned
  /\ yielded = 2
  /\ numpy_sum(Positive(numpy_squeeze(Slice(label, Item(objects, 0))))) #
       numpy_sum(Positive(numpy_squeeze(Slice(label, Item(objects, 1)))))
  /\ cache["area"] = numpy_sum(label)

\* The cached quantities the body of each derived quantity reads (self.<name>).
Deps ==
  [name \in DerivedQuantities |->
     CASE name = "area" -> {}
       [] name = "central_moments" -> {"local_centroid"}
       [] name = "centroid" -> {"coordinates"}
       [] name = "convex_hull" -> {"mask"}
       [] name = "coordinates" -> {}
       [] name = "crop" -> {}
       [] name = "edge" -> {"mask", "crop"}
       [] name = "inertia_tensor" -> {"central_moments"}
       [] name = "inertia_tensor_eigenvalues" -> {"inertia_tensor"}
       [] name = "local_centroid" -> {"spatial_moments"}
       [] name = "mask" -> {}
       [] name = "masked" -> {"mask"}
       [] name = "spatial_moments" -> {"masked"}]

\* The quantities reached from `names` in at most `steps` steps of Deps.
RECURSIVE Reach(_, _)
Reach(names, steps) ==
  IF steps = 0 THEN names
  ELSE Reach(names \cup UNION {Deps[n] : n \in names}, steps - 1)

\* A quantity and every quantity it reads, directly or not.
Closure(name) == Reach({name}, Cardinality(DerivedQuantities))

\* C19: a request for a derived quantity on an engine with an empty cache
\* computes no quantity more than once, and when it returns the cache holds
\* exactly the requested quantity and the quantities it reads transitively,
\* each computed once.
C19_RequestComputesDependencyChain ==
  [][(cache = <<>> /\ result'.call = "Request") =>
       /\ \A n \in CachedNames : invoked'[n] <= 1
       /\ result'.kind = "quantity" =>
            /\ result'.value \in DOMAIN cache'
            /\ DOMAIN cache' = Closure(result'.value)
            /\ \A n \in DOMAIN cache' : invoked'[n] = 1]_vars

\* inertia_tensor_eigenvalues was requested first, and its chain of seven
\* quantities is in the cache.
C19_Witness ==
  /\ result = Returned("Request", "quantity", "inertia_tensor_eigenvalues")
  /\ yielded = 0
  /\ DOMAIN cache = {"inertia_tensor_eigenvalues", "inertia_tensor", "central_moments",
                     "local_centroid", "spatial_moments", "masked", "mask"}

\* C20: the cursor of an engine over N objects stays within 1..N+1, so the
\* index object_index - 1 that selects the slice is never negative; no step
\* decreases it; a next() that finds an object increases it by exactly 1, and
\* a next() that ends the sequence leaves it, the current slice and the cache
\* unchanged.
C20_CursorBounds ==
  /\ [](phase = "ready" => (1 <= object_index /\ object_index <= N + 1))
  /\ [][/\ phase = "ready" => object_index' >= object_index
        /\ result'.call = "__next__" =>
             IF Stopped'
             THEN UNCHANGED <<object_index, object, cache>>
             ELSE object_index' = object_index + 1]_vars

\* The sequence of an engine of two objects ended with the cursor on N + 1.
C20_Witness ==
  /\ Stopped
  /\ N = 2
  /\ object_index = N + 1

\* The cursor is advanced before the row is evaluated (generator.py line 59):
\* whether rows raise or not, the calls of next() that return or raise before
\* the end of the sequence are exactly N, each one object further, and every
\* later call ends the sequence.
CursorAdvancesPastFailure ==
  [][result'.call = "__next__" =>
       /\ phase' = "ready"
       /\ IF yielded + raised < N
          THEN /\ result'.kind = "row" \/ result' = Returned("__next__", "raise", "ValueError")
               /\ yielded' + raised' = yielded + raised + 1
               /\ object_index' = object_index + 1
               /\ object' = Item(objects, yielded + raised)
          ELSE /\ result' = Returned("__next__", "raise", "StopIteration")
               /\ UNCHANGED <<yielded, raised, object_index, object>>]_vars

\* The masked crop of the k-th object, computed on that object alone.
OwnMasked(k) == masked(Fresh(k)).cache["masked"]

\* C12: a failure of next() is confined to the object whose row raised: a
\* next() raises the conversion error only when the masked crop of the object
\* it evaluates cannot be converted, whatever happened to the objects before.
C12_FailureConfinedToObject ==
  result = Returned("__next__", "raise", "ValueError") =>
    OutOfRange(OwnMasked(yielded + raised))

====
